---------------------------- MODULE Spec2Model ----------------------------
(***************************************************************************)
(* Gravity: a fixed-capacity byte arena (nnanto/gravity).                  *)
(*                                                                         *)
(* The model follows src/gravity.go (the arena facade), the free space     *)
(* manager of src/unnamed/part_000 (lines 586-703), src/vmap.go (the key   *)
(* to position map), src/treap/action.go (the treap) and the node and      *)
(* free space types of src/unnamed/part_005 and src/unnamed/part_003.      *)
(*                                                                         *)
(* The backing buffer is modelled byte by byte; record headers are the     *)
(* 8 + 8 little-endian bytes the code writes.  The treap is modelled as a  *)
(* heap of nodes with the five pointer fields of treap.Node.               *)
(***************************************************************************)
EXTENDS Integers, Sequences, FiniteSets, TLC

(***************************************************************************)
(* Bounds of the model.                                                    *)
(***************************************************************************)
\* length of the buffer handed to NewGravity
MemSize == 50
\* the key counter is not advanced beyond this value
MaxKey == 5
\* longest payload a caller writes
MaxPayloadLen == 2
\* number of treap.Node objects that can be allocated at one time
MaxNodes == 6
\* length of the buffer of the concurrent specification
MemSizeC == 34
\* the key counter is not advanced beyond this value by concurrent writes
MaxKeyC == 4
\* the key counter is not advanced beyond this value under SpecFair
MaxKeyF == 3
\* the key counter is not advanced beyond this value under SpecV
MaxKeyV == 3
\* the bytes the callers of the free space manager's pool add and extract
PoolSpan == 5
\* the bytes the intervals given to the free space manager alone lie in
TreapSpan == 10
\* the bytes the intervals added to and removed from the treap lie in
RemoveSpan == 7
\* the key counter is not advanced beyond this value under SpecFill
MaxKeyFill == 7
\* the longest buffer handed to NewGravity under SpecNew
MaxBufferLen == 24
\* number of goroutines of the concurrent specification
MaxThreads == 2

(***************************************************************************)
(* Program constants.                                                      *)
(***************************************************************************)
HeaderLen == 8
KeyLen == 8
maxBucket == 32
initG == -1

Nil == 0
NodeIds == 1..MaxNodes

\* the payload of n bytes a caller writes when the key counter stands at c:
\* every byte is 64 + c + 1, so no two records of a run hold the same bytes
Payload(n, c) == [i \in 1..n |-> 64 + c + 1]
\* the payload lengths callers write
PayloadLens == 0..MaxPayloadLen

\* the keys callers try to read or free (0, 1 and keys beyond the counter included)
Keys == 0..(MaxKey + 1)

Min(a, b) == IF a < b THEN a ELSE b

(***************************************************************************)
(* encoding/binary.LittleEndian on 8 bytes.                                *)
(***************************************************************************)
\* a decoded value of 2^24 or more is reported as Uint64Big: every use of
\* such a value in the code indexes far beyond the buffer
Uint64Big == 16777216

\* binary.LittleEndian.Uint64(b): b[0] | b[1]<<8 | ...
RECURSIVE Uint64From(_, _)
Uint64From(bs, i) ==
    IF i > Len(bs) THEN 0
    ELSE LET rest == Uint64From(bs, i + 1)
         IN IF rest >= Uint64Big \div 256 THEN Uint64Big
            ELSE bs[i] + 256 * rest
Uint64(bs) == Uint64From(bs, 1)

\* binary.LittleEndian.PutUint64(b, v): b[i] = byte(v >> (8*i))
RECURSIVE PutUint64From(_, _)
PutUint64From(v, n) ==
    IF n = 0 THEN <<>>
    ELSE <<v % 256>> \o PutUint64From(v \div 256, n - 1)
PutUint64(v) == PutUint64From(v, 8)

(***************************************************************************)
(* treap.FreeSpace: an inclusive interval <<Start, End>> of buffer         *)
(* offsets; <<>> stands for a nil *FreeSpace.                              *)
(***************************************************************************)
FreeSpace(s, e) == <<s, e>>
NilFs == <<>>
Start(fs) == fs[1]
End(fs) == fs[2]

\* FreeSpace.Size
Size(fs) ==
    IF fs = NilFs THEN 0
    ELSE IF Start(fs) > End(fs) THEN 0
    ELSE End(fs) - Start(fs) + 1

(***************************************************************************)
(* treap.Node.  The heap h maps a node id to the node's fields; 0 is nil.  *)
(***************************************************************************)
BlankNode ==
    [Fs |-> NilFs, left |-> Nil, right |-> Nil, prev |-> Nil, next |-> Nil, parent |-> Nil]

EmptyHeap == [n \in NodeIds |-> BlankNode]

SetFs(h, n, v) == [h EXCEPT ![n].Fs = v]
SetLeft(h, n, v) == [h EXCEPT ![n].left = v]
SetRight(h, n, v) == [h EXCEPT ![n].right = v]
SetPrev(h, n, v) == [h EXCEPT ![n].prev = v]
SetNext(h, n, v) == [h EXCEPT ![n].next = v]
SetParent(h, n, v) == [h EXCEPT ![n].parent = v]

\* Node.Size
NodeSize(h, n) == Size(h[n].Fs)

\* Node.greater, on the two nodes' intervals
greater(a, b) ==
    IF Start(a) = Start(b) THEN End(a) > End(b) ELSE Start(a) > Start(b)

\* Node.distance
distance(h, n, nextNode) == Start(h[nextNode].Fs) - End(h[n].Fs)

\* a gravity far below every gravity of two intervals of the buffer: the
\* value of a float64 division by the square of a wrapped-around distance
TinyGravity == <<1, 100000>>

\* Node.gravity, as the fraction <<numerator, denominator>>
gravity(h, n) ==
    LET nextNode == h[n].next
    IN IF nextNode = Nil THEN <<initG, 1>>
       ELSE LET d == distance(h, n, nextNode)
            IN IF d < 0 THEN TinyGravity
               ELSE <<NodeSize(h, n) * NodeSize(h, nextNode), d * d>>

\* a > b on two gravities
gravityGreater(a, b) == a[1] * b[2] > b[1] * a[2]

\* an isOverlapping that sees only an interval that ends right before the node
isOverlappingBefore(a, b) ==
    Start(a) = End(b) + 1

\* Node.isOverlapping, on the intervals of two nodes: the intervals abut
isOverlapping(a, b) ==
    Start(a) = End(b) + 1 \/ Start(b) = End(a) + 1

\* Node.merge: the interval of n expanded to cover overlapNode's interval
nodeMerge(h, n, overlapFs) ==
    LET fs == h[n].Fs
        s == IF Start(overlapFs) < Start(fs) THEN Start(overlapFs) ELSE Start(fs)
        e == IF End(overlapFs) > End(fs) THEN End(overlapFs) ELSE End(fs)
    IN SetFs(h, n, FreeSpace(s, e))

\* Node.Cleanup
Cleanup(h, n) == [h EXCEPT ![n] = BlankNode]

\* rotateLeft makes the right node the parent of the current node y
rotateLeft(h, y) ==
    LET x == h[y].right
        xl == h[x].left
        h1 == SetRight(h, y, xl)
        h2 == IF xl # Nil THEN SetParent(h1, xl, y) ELSE h1
        h3 == SetLeft(h2, x, y)
        h4 == SetParent(h3, x, h3[y].parent)
        h5 == SetParent(h4, y, x)
    IN [h |-> h5, r |-> x]

\* rotateRight makes the left node the parent of the current node x
rotateRight(h, x) ==
    LET y == h[x].left
        yr == h[y].right
        h1 == SetLeft(h, x, yr)
        h2 == IF yr # Nil THEN SetParent(h1, yr, x) ELSE h1
        h3 == SetRight(h2, y, x)
        h4 == SetParent(h3, y, h3[x].parent)
        h5 == SetParent(h4, x, y)
    IN [h |-> h5, r |-> y]

\* setNextPrev links a new node into the in-order list beside its parent
setNextPrev(h, node, left) ==
    LET parent == h[node].parent
    IN IF left
       THEN LET h1 == SetPrev(h, node, h[parent].prev)
                h2 == SetNext(h1, node, parent)
                h3 == SetPrev(h2, parent, node)
            IN IF h3[node].prev # Nil THEN SetNext(h3, h3[node].prev, node) ELSE h3
       ELSE LET h1 == SetNext(h, node, h[parent].next)
                h2 == SetPrev(h1, node, parent)
                h3 == SetNext(h2, parent, node)
            IN IF h3[node].next # Nil THEN SetPrev(h3, h3[node].next, node) ELSE h3

\* an unlinking that leaves the prev pointer of the next node as it was
unlinkForward(h, root) ==
    IF h[root].prev # Nil THEN SetNext(h, h[root].prev, h[root].next) ELSE h

\* the prev/next unlinking Remove does for a node with at most one child
unlink(h, root) ==
    LET h1 == IF h[root].prev # Nil THEN SetNext(h, h[root].prev, h[root].next) ELSE h
    IN IF h1[root].next # Nil THEN SetPrev(h1, h1[root].next, h1[root].prev) ELSE h1

RECURSIVE Remove(_, _, _)
\* Remove(root, node): the node is looked up by its interval fs.  Returns the
\* heap, the new root r of the subtree and the deleted node dn
Remove(h, root, fs) ==
    IF root = Nil THEN [h |-> h, r |-> Nil, dn |-> Nil]
    ELSE IF greater(h[root].Fs, fs) THEN
        LET sub == Remove(h, h[root].left, fs)
            h1 == SetLeft(sub.h, root, sub.r)
            h2 == IF sub.r # Nil THEN SetParent(h1, sub.r, root) ELSE h1
        IN [h |-> h2, r |-> root, dn |-> sub.dn]
    ELSE IF greater(fs, h[root].Fs) THEN
        LET sub == Remove(h, h[root].right, fs)
            h1 == SetRight(sub.h, root, sub.r)
            h2 == IF sub.r # Nil THEN SetParent(h1, sub.r, root) ELSE h1
        IN [h |-> h2, r |-> root, dn |-> sub.dn]
    ELSE IF h[root].left = Nil /\ h[root].right = Nil THEN
        [h |-> unlink(h, root), r |-> Nil, dn |-> root]
    ELSE IF h[root].left = Nil THEN
        [h |-> unlink(h, root), r |-> h[root].right, dn |-> root]
    ELSE IF h[root].right = Nil THEN
        [h |-> unlink(h, root), r |-> h[root].left, dn |-> root]
    ELSE IF NodeSize(h, h[root].left) > NodeSize(h, h[root].right) THEN
        LET rot == rotateRight(h, root)
        IN Remove(rot.h, rot.r, rot.h[rot.h[rot.r].right].Fs)
    ELSE
        LET rot == rotateLeft(h, root)
        IN Remove(rot.h, rot.r, rot.h[rot.h[rot.r].left].Fs)

\* a mergeAndExpand that never absorbs a neighbour of root
mergeAndExpandAlone(h, root, nn) == nodeMerge(h, root, h[nn].Fs)

\* mergeAndExpand: root abuts nn; root absorbs nn and, when nn also abuts the
\* in-order neighbour of root, that neighbour
mergeAndExpand(h, root, nn) ==
    LET nnFs == h[nn].Fs
        nx == h[root].next
        pv == h[root].prev
    IN IF nx # Nil /\ isOverlapping(h[nx].Fs, nnFs) THEN
           LET oldNext == h[nx].next
               rem == Remove(h, h[nx].parent, h[nx].Fs)
               h1 == SetNext(rem.h, root, oldNext)
           IN nodeMerge(h1, root, h1[nx].Fs)
       ELSE IF pv # Nil /\ isOverlapping(h[pv].Fs, nnFs) THEN
           LET oldPrev == h[pv].prev
               rem == Remove(h, h[pv].parent, h[pv].Fs)
               h1 == SetPrev(rem.h, root, oldPrev)
           IN nodeMerge(h1, root, h1[pv].Fs)
       ELSE nodeMerge(h, root, nnFs)

\* a heapification that looks at the left child only
swimLeftOnly(h, root) ==
    IF h[root].left # Nil /\ NodeSize(h, h[root].left) > NodeSize(h, root)
    THEN rotateRight(h, root)
    ELSE [h |-> h, r |-> root]

\* the rotation Insert does when a child is larger than root
swim(h, root) ==
    IF h[root].left # Nil /\ NodeSize(h, h[root].left) > NodeSize(h, root)
    THEN rotateRight(h, root)
    ELSE IF h[root].right # Nil /\ NodeSize(h, h[root].right) > NodeSize(h, root)
    THEN rotateLeft(h, root)
    ELSE [h |-> h, r |-> root]

\* the rotation Insert does for a child of equal size; c1 and c2 are the
\* outcomes of the two draws fastrandn(10) < 5
tieBreak(h, root, c1, c2) ==
    IF h[root].left # Nil /\ NodeSize(h, h[root].left) = NodeSize(h, root) /\ c1
    THEN rotateRight(h, root)
    ELSE IF h[root].right # Nil /\ NodeSize(h, h[root].right) = NodeSize(h, root) /\ c2
    THEN rotateLeft(h, root)
    ELSE [h |-> h, r |-> root]

\* the two heapification steps at the end of Insert, for every outcome of
\* the random draws
heapify(h, root) ==
    LET s == swim(h, root)
    IN { tieBreak(s.h, s.r, c1, c2) : c1 \in BOOLEAN, c2 \in BOOLEAN }

RECURSIVE Insert(_, _, _)
\* Insert(root, nn): the set of results [h, r], one for each outcome of the
\* random tie-breaks
Insert(h, root, nn) ==
    IF root = Nil THEN {[h |-> h, r |-> nn]}
    ELSE
        LET placed ==
                IF isOverlapping(h[root].Fs, h[nn].Fs) THEN
                    {mergeAndExpand(h, root, nn)}
                ELSE IF greater(h[root].Fs, h[nn].Fs) THEN
                    { LET h1 == SetLeft(sub.h, root, sub.r)
                          h2 == SetParent(h1, sub.r, root)
                      IN IF h2[sub.r].next = Nil THEN setNextPrev(h2, sub.r, TRUE) ELSE h2
                      : sub \in Insert(h, h[root].left, nn) }
                ELSE
                    { LET h1 == SetRight(sub.h, root, sub.r)
                          h2 == SetParent(h1, sub.r, root)
                      IN IF h2[sub.r].prev = Nil THEN setNextPrev(h2, sub.r, FALSE) ELSE h2
                      : sub \in Insert(h, h[root].right, nn) }
        IN UNION { heapify(h1, root) : h1 \in placed }

\* the maximum gravity node amongst the three (the closures g and max of
\* GreatestGravityNode); a nil node has gravity -1
maxGravity(h, a, b, c) ==
    LET g(n) == IF n = Nil THEN <<initG, 1>> ELSE gravity(h, n)
    IN IF gravityGreater(g(a), g(b))
       THEN (IF gravityGreater(g(a), g(c)) THEN a ELSE c)
       ELSE IF gravityGreater(g(b), g(c)) THEN b
       ELSE c

RECURSIVE crawlGravity(_, _, _, _)
\* the loop of GreatestGravityNode
crawlGravity(h, root, crawl, size) ==
    IF crawl = Nil THEN root
    ELSE LET l == IF h[crawl].left # Nil /\ NodeSize(h, h[crawl].left) >= size
                  THEN h[crawl].left ELSE Nil
             r == IF h[crawl].right # Nil /\ NodeSize(h, h[crawl].right) >= size
                  THEN h[crawl].right ELSE Nil
         IN IF l = Nil /\ r = Nil THEN crawl
            ELSE LET nxt == maxGravity(h, crawl, l, r)
                 IN IF nxt = crawl THEN crawl
                    ELSE crawlGravity(h, root, nxt, size)

\* a GreatestGravityNode that takes nodes of any size
GreatestGravityNodeAnySize(h, root, size) == crawlGravity(h, root, root, 0)

\* GreatestGravityNode returns a large gravity node that satisfies the size
GreatestGravityNode(h, root, size) == crawlGravity(h, root, root, size)

RECURSIVE collectNeighboursAppends(_, _, _, _, _, _)
\* a loop that puts the previous nodes behind the others
collectNeighboursAppends(h, fss, nc, pc, ts, size) ==
    IF ts >= size THEN [fss |-> fss, ts |-> ts, panic |-> FALSE]
    ELSE IF nc # Nil THEN
        collectNeighboursAppends(h, Append(fss, h[nc].Fs), h[nc].next, pc,
                                 ts + NodeSize(h, nc), size)
    ELSE IF pc # Nil THEN
        collectNeighboursAppends(h, Append(fss, h[pc].Fs), nc, h[pc].prev,
                                 ts + NodeSize(h, pc), size)
    ELSE [fss |-> fss, ts |-> ts, panic |-> TRUE]

RECURSIVE collectNeighboursPrevFirst(_, _, _, _, _, _)
\* a loop that takes the previous nodes first, then the next nodes
collectNeighboursPrevFirst(h, fss, nc, pc, ts, size) ==
    IF ts >= size THEN [fss |-> fss, ts |-> ts, panic |-> FALSE]
    ELSE IF pc # Nil THEN
        collectNeighboursPrevFirst(h, <<h[pc].Fs>> \o fss, nc, h[pc].prev,
                                   ts + NodeSize(h, pc), size)
    ELSE IF nc # Nil THEN
        collectNeighboursPrevFirst(h, Append(fss, h[nc].Fs), h[nc].next, pc,
                                   ts + NodeSize(h, nc), size)
    ELSE [fss |-> fss, ts |-> ts, panic |-> TRUE]

RECURSIVE collectNeighbours(_, _, _, _, _, _)
\* the loop of GetFittingNeighbours: next nodes first, then previous nodes
collectNeighbours(h, fss, nc, pc, ts, size) ==
    IF ts >= size THEN [fss |-> fss, ts |-> ts, panic |-> FALSE]
    ELSE IF nc # Nil THEN
        collectNeighbours(h, Append(fss, h[nc].Fs), h[nc].next, pc,
                          ts + NodeSize(h, nc), size)
    ELSE IF pc # Nil THEN
        collectNeighbours(h, <<h[pc].Fs>> \o fss, nc, h[pc].prev,
                          ts + NodeSize(h, pc), size)
    ELSE [fss |-> fss, ts |-> ts, panic |-> TRUE]

RECURSIVE removeAll(_, _, _, _)
\* the removal loop of GetFittingNeighbours
removeAll(h, nr, fss, i) ==
    IF i > Len(fss) THEN [h |-> h, r |-> nr]
    ELSE LET rem == Remove(h, nr, fss[i])
         IN removeAll(rem.h, rem.r, fss, i + 1)

\* a GetFittingNeighbours that removes only the node it started from
GetFittingNeighboursKeeps(h, root, node, size) ==
    LET c == collectNeighbours(h, <<h[node].Fs>>, h[node].next, h[node].prev,
                               NodeSize(h, node), size)
    IN IF c.panic THEN [panic |-> TRUE, fss |-> c.fss, h |-> h, nr |-> root, ts |-> c.ts]
       ELSE LET rm == Remove(h, root, h[node].Fs)
            IN [panic |-> FALSE, fss |-> c.fss, h |-> rm.h, nr |-> rm.r, ts |-> c.ts]

\* GetFittingNeighbours returns the list of freespaces (in sorted order) that
\* together satisfy the size, the new root and the space they cover
GetFittingNeighbours(h, root, node, size) ==
    LET c == collectNeighbours(h, <<h[node].Fs>>, h[node].next, h[node].prev,
                               NodeSize(h, node), size)
    IN IF c.panic THEN [panic |-> TRUE, fss |-> c.fss, h |-> h, nr |-> root, ts |-> c.ts]
       ELSE LET rm == removeAll(h, root, c.fss, 1)
            IN [panic |-> FALSE, fss |-> c.fss, h |-> rm.h, nr |-> rm.r, ts |-> c.ts]

(***************************************************************************)
(* treap.NodePool (a sync.Pool of nodes) and the allocation of nodes.      *)
(* A node that no pointer of the treap reaches is garbage: its id is free  *)
(* again, and a pooled node nobody refers to is the same as a new one.     *)
(***************************************************************************)
pointers(nd) == {nd.left, nd.right, nd.prev, nd.next, nd.parent} \ {Nil}

RECURSIVE reach(_, _)
reach(h, S) ==
    LET T == S \cup UNION { pointers(h[n]) : n \in S }
    IN IF T = S THEN S ELSE reach(h, T)

\* the nodes some pointer path from the root leads to
Live(h, root) == reach(h, IF root = Nil THEN {} ELSE {root})

RECURSIVE visit(_, _, _)
\* the live nodes in the order a depth-first walk from the root meets them
\* (fields in the order left, right, prev, next, parent)
visit(h, todo, seen) ==
    IF todo = <<>> THEN seen
    ELSE LET n == Head(todo)
         IN IF n = Nil \/ \E i \in DOMAIN seen : seen[i] = n
            THEN visit(h, Tail(todo), seen)
            ELSE visit(h, <<h[n].left, h[n].right, h[n].prev, h[n].next, h[n].parent>>
                          \o Tail(todo), Append(seen, n))

\* the heap and the pool with the garbage collected.  Node ids are addresses,
\* which the program never compares by order: the live nodes are renumbered
\* 1, 2, ... in the order of the walk
collect(h, root, pool) ==
    LET order == visit(h, <<root>>, <<>>)
        id(n) == IF n = Nil THEN Nil ELSE CHOOSE i \in DOMAIN order : order[i] = n
        moved(nd) == [Fs |-> nd.Fs, left |-> id(nd.left), right |-> id(nd.right),
                      prev |-> id(nd.prev), next |-> id(nd.next), parent |-> id(nd.parent)]
    IN [h |-> [i \in NodeIds |-> IF i \in DOMAIN order THEN moved(h[order[i]]) ELSE BlankNode],
        r |-> id(root),
        pool |-> { i \in DOMAIN order : order[i] \in pool }]

\* the ids no object has
freeIds(h, pool) == { n \in NodeIds : h[n] = BlankNode /\ n \notin pool }

\* nodePool.Get: a pooled node, or a new one (sync.Pool may return either)
nodePoolGet(h, pool) ==
    pool \cup (IF freeIds(h, pool) = {} THEN {}
               ELSE {CHOOSE n \in freeIds(h, pool) : \A m \in freeIds(h, pool) : n <= m})

(***************************************************************************)
(* freeSpaceManager.  t is the record of its fields                        *)
(*   root, nodes (the heap of treap nodes), totalFreeSpace,                *)
(*   extractedFreeSpaces                                                   *)
(* and pool is treap.NodePool.                                             *)
(***************************************************************************)
NoError == ""
NotEnoughSpace == "not enough space"
illegalPoolPut == "pool put called without pool get"
emptyFreespace == "empty freespace"
WrongReadPosition == "wrong read position index"
outOfBound == "out of bound"

newFSM == [root |-> Nil, nodes |-> EmptyHeap, totalFreeSpace |-> 0, extractedFreeSpaces |-> 0]

\* the intervals of the nodes of the tree under n, in order
RECURSIVE inorder(_, _, _)
inorder(h, n, fuel) ==
    IF n = Nil \/ fuel = 0 THEN <<>>
    ELSE inorder(h, h[n].left, fuel - 1) \o <<h[n].Fs>> \o inorder(h, h[n].right, fuel - 1)

treeIntervals(t) == inorder(t.nodes, t.root, MaxNodes)

RECURSIVE inorderNodes(_, _, _)
\* the nodes of the tree under n, in order
inorderNodes(h, n, fuel) ==
    IF n = Nil \/ fuel = 0 THEN <<>>
    ELSE inorderNodes(h, h[n].left, fuel - 1) \o <<n>>
         \o inorderNodes(h, h[n].right, fuel - 1)

treeNodes(t) == inorderNodes(t.nodes, t.root, MaxNodes)

\* add inserts or merges the provided free space; nn is the node NodePool.Get
\* returned.  The set of results, one for each outcome of the tie-breaks
add(t, pool, fs, nn) ==
    IF Size(fs) <= 0
    THEN {[t |-> t, pool |-> pool, err |-> emptyFreespace, broadcast |-> FALSE]}
    ELSE { LET c == collect(ins.h, ins.r, pool \ {nn})
           IN [t |-> [t EXCEPT !.root = c.r, !.nodes = c.h,
                               !.totalFreeSpace = t.totalFreeSpace + Size(fs)],
               pool |-> c.pool,
               err |-> NoError,
               broadcast |-> (t.root # ins.r)]
           : ins \in Insert(SetFs(t.nodes, nn, fs), t.root, nn) }

\* a poolExtract that does not wait for the bundles that are out
extractNeverWaits(t, size) == FALSE

\* a poolExtract that waits only when the intervals together are too small
extractWaitsForSum(t, size) ==
    (t.root = Nil \/ t.totalFreeSpace < size) /\ t.extractedFreeSpaces > 0

\* the loop condition of poolExtract: the caller waits on pcond
\* a wait loop that waits only while the treap is empty
extractWaitsWhileEmpty(t, size) == t.root = Nil /\ t.extractedFreeSpaces > 0

extractWaits(t, size) ==
    (t.root = Nil \/ NodeSize(t.nodes, t.root) < size) /\ t.extractedFreeSpaces > 0

\* an end of poolExtract that leaves totalFreeSpace as it was
bundleOutUncounted(t, pool, node, g) ==
    LET c == collect(Cleanup(g.h, node), g.nr, pool \cup {node})
    IN IF g.panic
       THEN [err |-> NoError, panic |-> TRUE, fss |-> <<>>, t |-> t, pool |-> pool]
       ELSE [err |-> NoError, panic |-> FALSE, fss |-> g.fss,
             t |-> [t EXCEPT !.root = c.r, !.nodes = c.h,
                             !.extractedFreeSpaces = t.extractedFreeSpaces + 1],
             pool |-> c.pool]

\* the end of poolExtract: g is what GetFittingNeighbours returned for node
bundleOut(t, pool, node, g) ==
    LET \* the deferred treap.NodePool.Put(node)
        c == collect(Cleanup(g.h, node), g.nr, pool \cup {node})
    IN IF g.panic
       THEN [err |-> NoError, panic |-> TRUE, fss |-> <<>>, t |-> t, pool |-> pool]
       ELSE [err |-> NoError, panic |-> FALSE, fss |-> g.fss,
             t |-> [t EXCEPT !.root = c.r, !.nodes = c.h,
                             !.totalFreeSpace = t.totalFreeSpace - g.ts,
                             !.extractedFreeSpaces = t.extractedFreeSpaces + 1],
             pool |-> c.pool]

\* poolExtract from GetFittingNeighbours on: node is the max gravity node
bundleAt(t, pool, size, node) ==
    bundleOut(t, pool, node, GetFittingNeighbours(t.nodes, t.root, node, size))

\* poolExtract from "Get max gravity node" on: the bundle is taken out of the
\* tree
extractBundle(t, pool, size) ==
    bundleAt(t, pool, size,
             GreatestGravityNode(t.nodes, t.root,
                                 IF NodeSize(t.nodes, t.root) < size THEN 0 ELSE size))

\* a poolExtract that gives up when the root alone is too small
poolExtractNoBundle(t, pool, size) ==
    IF t.root = Nil \/ NodeSize(t.nodes, t.root) < size
    THEN [err |-> NotEnoughSpace, panic |-> FALSE, fss |-> <<>>, t |-> t, pool |-> pool]
    ELSE extractBundle(t, pool, size)

\* a poolExtract that counts the extraction before it knows there is space
poolExtractCountsFirst(t, pool, size) ==
    IF t.root = Nil \/ t.totalFreeSpace < size
    THEN [err |-> NotEnoughSpace, panic |-> FALSE, fss |-> <<>>,
          t |-> [t EXCEPT !.extractedFreeSpaces = t.extractedFreeSpaces + 1],
          pool |-> pool]
    ELSE extractBundle(t, pool, size)

\* poolExtract, from the end of its wait loop on
poolExtract(t, pool, size) ==
    IF t.root = Nil \/ t.totalFreeSpace < size
    THEN [err |-> NotEnoughSpace, panic |-> FALSE, fss |-> <<>>, t |-> t, pool |-> pool]
    ELSE extractBundle(t, pool, size)

\* a poolPut that wakes nobody
poolPutSilent(t, pool, fs, nn) ==
    LET t1 == [t EXCEPT !.extractedFreeSpaces = t.extractedFreeSpaces - 1]
    IN IF t1.extractedFreeSpaces < 0
       THEN {[t |-> t1, pool |-> pool, err |-> illegalPoolPut, broadcast |-> FALSE]}
       ELSE IF Size(fs) <= 0
       THEN {[t |-> t1, pool |-> pool, err |-> NoError, broadcast |-> FALSE]}
       ELSE { LET c == collect(ins.h, ins.r, pool \ {nn})
              IN [t |-> [t1 EXCEPT !.root = c.r, !.nodes = c.h,
                                   !.totalFreeSpace = t1.totalFreeSpace + Size(fs)],
                  pool |-> c.pool,
                  err |-> NoError,
                  broadcast |-> FALSE]
              : ins \in Insert(SetFs(t1.nodes, nn, fs), t1.root, nn) }

\* a poolPut that returns at once when the interval is empty
poolPutEmptyEarly(t, pool, fs, nn) ==
    LET t1 == [t EXCEPT !.extractedFreeSpaces = t.extractedFreeSpaces - 1]
    IN IF Size(fs) <= 0
       THEN {[t |-> t, pool |-> pool, err |-> NoError, broadcast |-> FALSE]}
       ELSE IF t1.extractedFreeSpaces < 0
       THEN {[t |-> t1, pool |-> pool, err |-> illegalPoolPut, broadcast |-> FALSE]}
       ELSE { LET c == collect(ins.h, ins.r, pool \ {nn})
              IN [t |-> [t1 EXCEPT !.root = c.r, !.nodes = c.h,
                                   !.totalFreeSpace = t1.totalFreeSpace + Size(fs)],
                  pool |-> c.pool,
                  err |-> NoError,
                  broadcast |-> TRUE]
              : ins \in Insert(SetFs(t1.nodes, nn, fs), t1.root, nn) }

\* poolPut; nn is the node NodePool.Get returns when the interval is inserted
poolPut(t, pool, fs, nn) ==
    LET t1 == [t EXCEPT !.extractedFreeSpaces = t.extractedFreeSpaces - 1]
    IN IF t1.extractedFreeSpaces < 0
       THEN {[t |-> t1, pool |-> pool, err |-> illegalPoolPut, broadcast |-> FALSE]}
       ELSE IF Size(fs) <= 0
       THEN {[t |-> t1, pool |-> pool, err |-> NoError, broadcast |-> TRUE]}
       ELSE { LET c == collect(ins.h, ins.r, pool \ {nn})
              IN [t |-> [t1 EXCEPT !.root = c.r, !.nodes = c.h,
                                   !.totalFreeSpace = t1.totalFreeSpace + Size(fs)],
                  pool |-> c.pool,
                  err |-> NoError,
                  broadcast |-> TRUE]
              : ins \in Insert(SetFs(t1.nodes, nn, fs), t1.root, nn) }

\* totalFreeSpaceSize returns once waitForExtractedFreeSpaces is over
totalFreeSpaceWaits(t) == t.extractedFreeSpaces > 0
totalFreeSpaceSize(t) == t.totalFreeSpace

(***************************************************************************)
(* vmap: maxBucket shards, each a map from key to position.                *)
(***************************************************************************)
newShardedStore == [i \in 0..(maxBucket - 1) |-> <<>>]

bucketIdx(k) == k % maxBucket

store(v, k, value) ==
    LET index == bucketIdx(k)
        m == v[index]
    IN [v EXCEPT ![index] = [x \in DOMAIN m \cup {k} |-> IF x = k THEN value ELSE m[x]]]

\* load: <<val, ok>>
load(v, k) ==
    LET m == v[bucketIdx(k)]
    IN IF k \in DOMAIN m THEN <<m[k], TRUE>> ELSE <<0, FALSE>>

\* a loadAndDelete that leaves the key in the map
loadAndDeleteKeeps(v, k) ==
    LET m == v[bucketIdx(k)]
    IN IF k \in DOMAIN m THEN [v |-> v, val |-> m[k], ok |-> TRUE]
       ELSE [v |-> v, val |-> 0, ok |-> FALSE]

\* a loadAndDelete that reports the zero value of a missing key as found
loadAndDeleteZero(v, k) ==
    LET index == bucketIdx(k)
        m == v[index]
    IN [v |-> [v EXCEPT ![index] = [x \in DOMAIN m \ {k} |-> m[x]]],
        val |-> IF k \in DOMAIN m THEN m[k] ELSE 0, ok |-> TRUE]

\* loadAndDelete: the map after the call and <<val, ok>>
loadAndDelete(v, k) ==
    LET index == bucketIdx(k)
        m == v[index]
    IN IF k \in DOMAIN m
       THEN [v |-> [v EXCEPT ![index] = [x \in DOMAIN m \ {k} |-> m[x]]],
             val |-> m[k], ok |-> TRUE]
       ELSE [v |-> v, val |-> 0, ok |-> FALSE]

\* the keys present in the map
vmapKeys(v) == UNION { DOMAIN v[i] : i \in DOMAIN v }

(***************************************************************************)
(* Gravity: the buffer g.mem is a function from 0..size-1 to bytes.        *)
(***************************************************************************)
sizeOf(m) == Cardinality(DOMAIN m)

\* g.mem[a:b] is a valid slice expression
sliceOK(m, a, b) == 0 <= a /\ a <= b /\ b <= sizeOf(m)

\* the bytes of g.mem[a:b]
slice(m, a, b) == [i \in 1..(b - a) |-> m[a + i - 1]]

\* copy(g.mem[a:a+Len(bs)], bs)
putBytes(m, a, bs) ==
    [i \in DOMAIN m |-> IF a <= i /\ i < a + Len(bs) THEN bs[i - a + 1] ELSE m[i]]

\* a writeAt that puts the key before the length
writeAtKeyFirst(m, pos, data, k) ==
    LET dl == Len(data)
    IN IF ~sliceOK(m, pos, pos + HeaderLen + KeyLen + dl)
       THEN [panic |-> TRUE, mem |-> m]
       ELSE [panic |-> FALSE,
             mem |-> putBytes(m, pos, PutUint64(k) \o PutUint64(dl) \o data)]

\* a writeAt that counts one byte too many in the length field
writeAtLongLength(m, pos, data, k) ==
    LET dl == Len(data)
    IN IF ~sliceOK(m, pos, pos + HeaderLen + KeyLen + dl)
       THEN [panic |-> TRUE, mem |-> m]
       ELSE [panic |-> FALSE,
             mem |-> putBytes(m, pos, PutUint64(dl + 1) \o PutUint64(k) \o data)]

\* writeAt: length, key and data written at pos
writeAt(m, pos, data, k) ==
    LET dl == Len(data)
    IN IF ~sliceOK(m, pos, pos + HeaderLen + KeyLen + dl)
       THEN [panic |-> TRUE, mem |-> m]
       ELSE [panic |-> FALSE,
             mem |-> putBytes(m, pos, PutUint64(dl) \o PutUint64(k) \o data)]

\* a readAndShift loop that leaves the positions of the shifted records alone
shiftKeysNoRewire(m, v, start, srcEnd, dstStart, runningDataLength) ==
    [panic |-> FALSE, vmap |-> v]

RECURSIVE shiftKeys(_, _, _, _, _, _)
\* the loop of readAndShift: the position of every record found between start
\* and srcEnd is rewired
shiftKeys(m, v, start, srcEnd, dstStart, runningDataLength) ==
    IF ~(start < srcEnd) THEN [panic |-> FALSE, vmap |-> v]
    ELSE IF start + HeaderLen + KeyLen > sizeOf(m) THEN [panic |-> TRUE, vmap |-> v]
    ELSE LET dl == Uint64(slice(m, start, start + HeaderLen))
             k == Uint64(slice(m, start + HeaderLen, start + HeaderLen + KeyLen))
             currentLen == dl + HeaderLen + KeyLen
         IN shiftKeys(m, store(v, k, dstStart + runningDataLength),
                      start + currentLen, srcEnd, dstStart,
                      runningDataLength + currentLen)

\* a readAndShift that stores the new positions and moves no byte
readAndShiftKeysOnly(m, v, srcStart, srcEnd, dstStart, dstEnd) ==
    LET w == shiftKeys(m, v, srcStart, srcEnd, dstStart, 0)
    IN [panic |-> w.panic, mem |-> m, vmap |-> w.vmap]

\* readAndShift reads all the data from srcStart:srcEnd and moves them to
\* dstStart:dstEnd
readAndShift(m, v, srcStart, srcEnd, dstStart, dstEnd) ==
    LET w == shiftKeys(m, v, srcStart, srcEnd, dstStart, 0)
    IN IF w.panic \/ ~sliceOK(m, dstStart, dstEnd) \/ ~sliceOK(m, srcStart, srcEnd)
       THEN [panic |-> TRUE, mem |-> m, vmap |-> w.vmap]
       ELSE LET n == Min(dstEnd - dstStart, srcEnd - srcStart)
            IN [panic |-> FALSE,
                mem |-> putBytes(m, dstStart, slice(m, srcStart, srcStart + n)),
                vmap |-> w.vmap]

RECURSIVE mergeFrom(_, _, _, _)
\* the loop of Gravity.merge over fss[i], fss[i+1]
mergeFrom(m, v, fss, i) ==
    IF i > Len(fss) - 1
    THEN [panic |-> FALSE, mem |-> m, vmap |-> v, fs |-> fss[Len(fss)]]
    ELSE LET fs == fss[i]
             nfs == fss[i + 1]
             destEnd == Start(fs) + (Start(nfs) - End(fs) - 1)
             sh == readAndShift(m, v, End(fs) + 1, Start(nfs), Start(fs), destEnd)
         IN IF sh.panic
            THEN [panic |-> TRUE, mem |-> sh.mem, vmap |-> sh.vmap, fs |-> nfs]
            ELSE mergeFrom(sh.mem, sh.vmap,
                           [fss EXCEPT ![i + 1] = FreeSpace(destEnd, End(nfs))], i + 1)

\* merge joins multiple freespaces to form a single large free space
merge(m, v, fss) == mergeFrom(m, v, fss, 1)

\* Gravity.Read from the bounds test on: pos is the position loadFromVPos
\* returned
readAt(m, pos) ==
    IF pos >= sizeOf(m) THEN [panic |-> FALSE, err |-> outOfBound, data |-> <<>>]
    ELSE IF ~sliceOK(m, pos, pos + HeaderLen)
    THEN [panic |-> TRUE, err |-> NoError, data |-> <<>>]
    ELSE LET dl == Uint64(slice(m, pos, pos + HeaderLen))
             p == pos + HeaderLen + KeyLen
         IN IF ~sliceOK(m, p, p + dl)
            THEN [panic |-> TRUE, err |-> NoError, data |-> <<>>]
            ELSE [panic |-> FALSE, err |-> NoError, data |-> slice(m, p, p + dl)]

\* Gravity.Read: the error and the bytes returned
Read(m, v, k) ==
    LET l == load(v, k)
    IN IF ~l[2] THEN [panic |-> FALSE, err |-> WrongReadPosition, data |-> <<>>]
       ELSE readAt(m, l[1])

\* a Free that leaves the key's eight bytes out of the freed interval
freeLookupNoKeyLen(m, v, k) ==
    LET l == loadAndDelete(v, k)
        pos == l.val
    IN IF ~l.ok THEN [panic |-> FALSE, err |-> WrongReadPosition, vmap |-> v, fs |-> NilFs]
       ELSE IF ~sliceOK(m, pos, pos + HeaderLen)
       THEN [panic |-> TRUE, err |-> NoError, vmap |-> l.v, fs |-> NilFs]
       ELSE LET dl == Uint64(slice(m, pos, pos + HeaderLen))
            IN [panic |-> FALSE, err |-> NoError, vmap |-> l.v,
                fs |-> FreeSpace(pos, pos + HeaderLen + dl - 1)]

\* the part of Gravity.Free under the read lock: the key is deleted and the
\* freed interval computed
freeLookup(m, v, k) ==
    LET l == loadAndDelete(v, k)
        pos == l.val
    IN IF ~l.ok THEN [panic |-> FALSE, err |-> WrongReadPosition, vmap |-> v, fs |-> NilFs]
       ELSE IF ~sliceOK(m, pos, pos + HeaderLen)
       THEN [panic |-> TRUE, err |-> NoError, vmap |-> l.v, fs |-> NilFs]
       ELSE LET dl == Uint64(slice(m, pos, pos + HeaderLen))
                totalDataSize == HeaderLen + KeyLen + dl
            IN [panic |-> FALSE, err |-> NoError, vmap |-> l.v,
                fs |-> FreeSpace(pos, pos + totalDataSize - 1)]

(***************************************************************************)
(* The state of one arena and of its callers.                              *)
(***************************************************************************)
VARIABLES
    mem,        \* Gravity.mem
    vmap,       \* Gravity.vmap
    key,        \* Gravity.key
    fsm,        \* Gravity.fsm
    NodePool,   \* treap.NodePool: the pooled nodes
    thr,        \* the goroutines: where each is in its call, and its locals
    crash,      \* the panic that ended the process, or ""
    ret,        \* the last call that returned: [op, arg, key, err, data, tfs, was]
    written,    \* history: key |-> payload of every Write that returned no error
    home,       \* history: key |-> the position writeAt put the record at
    removed,    \* history: the keys Free deleted from vmap
    freed,      \* history: the keys for which Free returned no error
    mixed       \* history: a Free ran while another call was in progress

vars == <<mem, vmap, key, fsm, NodePool, thr, crash, ret, written, home,
          removed, freed, mixed>>

Threads == 1..MaxThreads

\* a goroutine outside every call
Idle == [pc |-> "idle", k |-> 0, data |-> <<>>, fss |-> <<>>, pos |-> 0, was |-> "none"]

\* the keys of the records written and not freed
LiveKeys == DOMAIN written \ freed

\* what the history says of a key: written and not freed, freed, or neither
KeyState(k) ==
    IF k \in freed THEN "freed" ELSE IF k \in DOMAIN written THEN "live" ELSE "none"

\* the call that returned; was: the KeyState of its key when the call began
Ret(op, arg, k, err, data, tfs, was) ==
    [op |-> op, arg |-> arg, key |-> k, err |-> err, data |-> data, tfs |-> tfs,
     was |-> was]

\* a key counter that wraps around
getKeyWraps(c) == IF c >= 3 THEN 2 ELSE c + 1

\* getKey: the counter after the atomic increment, which is the key returned
getKey(c) == c + 1

\* a NewGravity that takes a buffer of exactly a header and a key
NewGravityHeaderOnly(n) ==
    IF n < HeaderLen + KeyLen
    THEN [err |-> "input byte too small"]
    ELSE LET a == CHOOSE r \in add(newFSM, {}, FreeSpace(0, n - 1), 1) : TRUE
         IN [err |-> a.err,
             mem |-> [i \in 0..(n - 1) |-> 0],
             fsm |-> a.t,
             vmap |-> newShardedStore,
             key |-> 1]

\* NewGravity(make([]byte, n)): the arena, or the error for a short buffer
NewGravity(n) ==
    IF n <= HeaderLen + KeyLen
    THEN [err |-> "input byte too small"]
    ELSE LET a == CHOOSE r \in add(newFSM, {}, FreeSpace(0, n - 1), 1) : TRUE
         IN [err |-> a.err,
             mem |-> [i \in 0..(n - 1) |-> 0],
             fsm |-> a.t,
             vmap |-> newShardedStore,
             key |-> 1]

\* the state after NewGravity on a zeroed buffer of n bytes
InitFrom(n, g) ==
    /\ mem = g.mem
    /\ vmap = g.vmap
    /\ key = g.key
    /\ fsm = g.fsm
    /\ NodePool = {}
    /\ thr = [t \in Threads |-> Idle]
    /\ crash = ""
    /\ ret = Ret("NewGravity", n, 0, g.err, <<>>, 0, "none")
    /\ written = <<>>
    /\ home = <<>>
    /\ removed = {}
    /\ freed = {}
    /\ mixed = FALSE

InitArena(n) == InitFrom(n, NewGravity(n))

Init == InitArena(MemSize)

\* f with x mapped to y
Bind(f, x, y) == [z \in DOMAIN f \cup {x} |-> IF z = x THEN y ELSE f[z]]

Panic(why) ==
    /\ crash' = why
    /\ UNCHANGED <<mem, vmap, key, fsm, NodePool, thr, ret, written, home,
                   removed, freed, mixed>>

(***************************************************************************)
(* The calls of a single caller: every call runs to its return.            *)
(***************************************************************************)
\* write from g.writeAt on: ex is what poolExtract returned, mg what g.merge
\* returned and wr what g.writeAt returned
writeStored(data, k, ex, mg, wr) ==
    LET npos == Start(mg.fs)
        fs == FreeSpace(npos + HeaderLen + KeyLen + Len(data), End(mg.fs))
    IN IF wr.panic THEN Panic("writeAt")
       ELSE \E nn \in nodePoolGet(ex.t.nodes, ex.pool) :
            \E put \in poolPut(ex.t, ex.pool, fs, nn) :
               /\ key' = k
               /\ mem' = wr.mem
               /\ vmap' = store(mg.vmap, k, npos)
               /\ fsm' = put.t
               /\ NodePool' = put.pool
               /\ ret' = Ret("Write", data, k, NoError, <<>>, 0, "none")
               /\ written' = Bind(written, k, data)
               /\ home' = Bind(home, k, npos)
               /\ UNCHANGED <<thr, crash, removed, freed, mixed>>

\* write from g.merge on
writeMerged(data, k, ex, mg) ==
    IF mg.panic THEN Panic("merge")
    ELSE writeStored(data, k, ex, mg, writeAt(mg.mem, Start(mg.fs), data, k))

\* Gravity.write(data, k) from the return of poolExtract on
\* a write that gives its key back to the counter when poolExtract fails
writeReturnsKey(data, k, ex) ==
    IF ex.err # NoError THEN
        /\ key' = k - 1
        /\ fsm' = ex.t
        /\ NodePool' = ex.pool
        /\ ret' = Ret("Write", data, k, ex.err, <<>>, 0, "none")
        /\ UNCHANGED <<mem, vmap, thr, crash, written, home, removed, freed, mixed>>
    ELSE IF ex.panic THEN Panic("size not satisfied")
    ELSE writeMerged(data, k, ex, merge(mem, vmap, ex.fss))

write(data, k, ex) ==
    IF ex.err # NoError THEN
        /\ key' = k
        /\ fsm' = ex.t
        /\ NodePool' = ex.pool
        /\ ret' = Ret("Write", data, k, ex.err, <<>>, 0, "none")
        /\ UNCHANGED <<mem, vmap, thr, crash, written, home, removed, freed, mixed>>
    ELSE IF ex.panic THEN Panic("size not satisfied")
    ELSE writeMerged(data, k, ex, merge(mem, vmap, ex.fss))

\* Gravity.Write(data)
Write(data) ==
    /\ crash = ""
    /\ key < MaxKey
    /\ write(data, getKey(key),
             poolExtract(fsm, NodePool, HeaderLen + KeyLen + Len(data)))

\* Gravity.Read(k)
ReadCall(k) ==
    /\ crash = ""
    /\ LET r == Read(mem, vmap, k)
       IN IF r.panic THEN Panic("Read")
          ELSE /\ ret' = Ret("Read", k, k, r.err, r.data, 0, KeyState(k))
               /\ UNCHANGED <<mem, vmap, key, fsm, NodePool, thr, crash, written,
                              home, removed, freed, mixed>>

\* Gravity.Free(k)
Free(k) ==
    /\ crash = ""
    /\ LET f == freeLookup(mem, vmap, k)
       IN IF f.panic THEN Panic("Free")
          ELSE IF f.err # NoError THEN
              /\ vmap' = f.vmap
              /\ ret' = Ret("Free", k, k, f.err, <<>>, 0, KeyState(k))
              /\ UNCHANGED <<mem, key, fsm, NodePool, thr, crash, written, home,
                             removed, freed, mixed>>
          ELSE \E nn \in nodePoolGet(fsm.nodes, NodePool) :
               \E a \in add(fsm, NodePool, f.fs, nn) :
                  /\ vmap' = f.vmap
                  /\ fsm' = a.t
                  /\ NodePool' = a.pool
                  /\ ret' = Ret("Free", k, k, a.err, <<>>, 0, KeyState(k))
                  /\ removed' = removed \cup {k}
                  /\ freed' = IF a.err = NoError THEN freed \cup {k} ELSE freed
                  /\ UNCHANGED <<mem, key, thr, crash, written, home, mixed>>

\* Gravity.TotalFreeSpace()
TotalFreeSpace ==
    /\ crash = ""
    /\ ~totalFreeSpaceWaits(fsm)
    /\ ret' = Ret("TotalFreeSpace", 0, 0, NoError, <<>>, totalFreeSpaceSize(fsm), "none")
    /\ UNCHANGED <<mem, vmap, key, fsm, NodePool, thr, crash, written, home,
                   removed, freed, mixed>>

Next ==
    \/ \E n \in PayloadLens : Write(Payload(n, key))
    \/ \E k \in Keys : ReadCall(k)
    \/ \E k \in Keys : Free(k)
    \/ TotalFreeSpace

Spec == Init /\ [][Next]_vars

(***************************************************************************)
(* NewGravity on buffers of every length up to MaxBufferLen, and the calls *)
(* of a single caller on the arenas it returns.                            *)
(***************************************************************************)

BufferLens == 0..MaxBufferLen

\* what the caller of NewGravity holds: the arena, or nil and the error
returned(g) ==
    IF g.err = NoError THEN g
    ELSE [err |-> g.err,
          mem |-> <<>>,
          fsm |-> newFSM,
          vmap |-> newShardedStore,
          key |-> 0]

InitNew == \E n \in BufferLens : InitFrom(n, returned(NewGravity(n)))

\* NewGravity returned an arena
Constructed == ~(ret.op = "NewGravity" /\ ret.err # NoError)

NextNew ==
    \/ \E n \in PayloadLens : Constructed /\ Write(Payload(n, key))
    \/ \E k \in Keys : Constructed /\ ReadCall(k)
    \/ \E k \in Keys : Constructed /\ Free(k)
    \/ Constructed /\ TotalFreeSpace

SpecNew == InitNew /\ [][NextNew]_vars

(***************************************************************************)
(* The calls of several goroutines.  A step is one critical section or one *)
(* unlocked access of a call:                                              *)
(*   Write: getKey; poolExtract (or pcond.Wait); merge under g.Lock;       *)
(*          writeAt; vmap.store; the deferred poolPut                      *)
(*   Read:  RLock and loadFromVPos; the copy and RUnlock                   *)
(*   Free:  the lookup under RLock; fsm.add                                *)
(*   TotalFreeSpace: totalFreeSpaceSize (or pcond.Wait)                    *)
(* The FSM mutex is held only within a step.  g.Lock is held only within   *)
(* the merge step; g.RLock is held by a Read between its two steps.        *)
(***************************************************************************)
Quiescent == \A t \in Threads : thr[t].pc = "idle"

InWrite(t) ==
    thr[t].pc \in {"extract", "wait", "merge", "lock", "writeAt", "store", "storing", "put"}

\* a g.Lock that does not wait for the readers
noReaders == {}

\* a Free that keeps g.RLock until it returned
readersUntilAdd ==
    { t \in Threads : thr[t].pc \in {"load", "loadAndDelete", "copy", "add"} }

\* the goroutines that hold g.RLock
readers == { t \in Threads : thr[t].pc \in {"load", "loadAndDelete", "copy"} }

\* pcond.Broadcast: every goroutine in pcond.Wait re-evaluates its loop
Broadcast(th) ==
    [u \in Threads |->
        IF th[u].pc = "wait" THEN [th[u] EXCEPT !.pc = "extract"]
        ELSE IF th[u].pc = "tfsWait" THEN [th[u] EXCEPT !.pc = "tfs"]
        ELSE th[u]]

PanicC(why) ==
    /\ crash' = why
    /\ UNCHANGED <<mem, vmap, key, fsm, NodePool, thr, ret, written, home,
                   removed, freed, mixed>>

\* Write: key = g.getKey()
WriteBegin(t, n) ==
    /\ crash = "" /\ thr[t].pc = "idle" /\ key < MaxKeyC
    /\ key' = getKey(key)
    /\ thr' = [thr EXCEPT ![t] = [Idle EXCEPT !.pc = "extract", !.k = key',
                                              !.data = Payload(n, key)]]
    /\ mixed' = (mixed \/ \E u \in Threads : thr[u].pc = "add")
    /\ UNCHANGED <<mem, vmap, fsm, NodePool, crash, ret, written, home, removed, freed>>

\* write: the return of poolExtract; ex is what it returned
extracted(t, ex) ==
    IF ex.err # NoError THEN
        /\ fsm' = ex.t
        /\ NodePool' = ex.pool
        /\ thr' = [thr EXCEPT ![t] = Idle]
        /\ ret' = Ret("Write", thr[t].data, thr[t].k, ex.err, <<>>, 0, "none")
        /\ UNCHANGED <<mem, vmap, key, crash, written, home, removed, freed, mixed>>
    ELSE IF ex.panic THEN PanicC("size not satisfied")
    ELSE /\ fsm' = ex.t
         /\ NodePool' = ex.pool
         /\ thr' = [thr EXCEPT ![t].pc = "merge", ![t].fss = ex.fss]
         /\ UNCHANGED <<mem, vmap, key, crash, ret, written, home, removed, freed,
                        mixed>>

\* write: g.fsm.poolExtract(totalLen)
Extract(t) ==
    /\ crash = "" /\ thr[t].pc = "extract"
    /\ IF extractWaits(fsm, HeaderLen + KeyLen + Len(thr[t].data)) THEN
           /\ thr' = [thr EXCEPT ![t].pc = "wait"]
           /\ UNCHANGED <<mem, vmap, key, fsm, NodePool, crash, ret, written, home,
                          removed, freed, mixed>>
       ELSE extracted(t, poolExtract(fsm, NodePool,
                                     HeaderLen + KeyLen + Len(thr[t].data)))

\* write: the return of g.merge(fss)
merged(t) ==
    /\ LET mg == merge(mem, vmap, thr[t].fss)
       IN IF mg.panic THEN PanicC("merge")
          ELSE /\ mem' = mg.mem
               /\ vmap' = mg.vmap
               /\ thr' = [thr EXCEPT ![t].pc = "writeAt", ![t].fss = <<mg.fs>>]
               /\ UNCHANGED <<key, fsm, NodePool, crash, ret, written, home,
                              removed, freed, mixed>>

\* write: fs := g.merge(fss), the whole of it under g.Lock
Merge(t) == crash = "" /\ thr[t].pc = "merge" /\ readers = {} /\ merged(t)

\* write: g.writeAt(npos, data, k)
WriteAt(t) ==
    /\ crash = "" /\ thr[t].pc = "writeAt"
    /\ LET npos == Start(thr[t].fss[1])
           wr == writeAt(mem, npos, thr[t].data, thr[t].k)
       IN IF wr.panic THEN PanicC("writeAt")
          ELSE /\ mem' = wr.mem
               /\ thr' = [thr EXCEPT ![t].pc = "store", ![t].pos = npos]
               /\ UNCHANGED <<vmap, key, fsm, NodePool, crash, ret, written, home,
                              removed, freed, mixed>>

\* write: the return of g.vmap.store(k, npos)
stored(t) ==
    /\ vmap' = store(vmap, thr[t].k, thr[t].pos)
    /\ thr' = [thr EXCEPT ![t].pc = "put"]
    /\ UNCHANGED <<mem, key, fsm, NodePool, crash, ret, written, home, removed,
                   freed, mixed>>

\* write: g.vmap.store(k, npos)
Store(t) == crash = "" /\ thr[t].pc = "store" /\ stored(t)

\* write: fs.Start += totalLen, and the deferred g.fsm.poolPut(fs)
Put(t) ==
    /\ crash = "" /\ thr[t].pc = "put"
    /\ LET totalLen == HeaderLen + KeyLen + Len(thr[t].data)
           fs == FreeSpace(thr[t].pos + totalLen, End(thr[t].fss[1]))
       IN \E nn \in nodePoolGet(fsm.nodes, NodePool) :
          \E put \in poolPut(fsm, NodePool, fs, nn) :
             /\ fsm' = put.t
             /\ NodePool' = put.pool
             /\ thr' = LET th == [thr EXCEPT ![t] = Idle]
                       IN IF put.broadcast THEN Broadcast(th) ELSE th
             /\ ret' = Ret("Write", thr[t].data, thr[t].k, NoError, <<>>, 0, "none")
             /\ written' = Bind(written, thr[t].k, thr[t].data)
             /\ home' = Bind(home, thr[t].k, thr[t].pos)
             /\ UNCHANGED <<mem, vmap, key, crash, removed, freed, mixed>>

\* Read: the return of loadFromVPos
loaded(t, k) ==
    /\ LET l == load(vmap, k)
           was == IF \E u \in Threads : thr[u].pc = "add" /\ thr[u].k = k
                  THEN "none" ELSE KeyState(k)
       IN IF ~l[2] THEN
              /\ ret' = Ret("Read", k, k, WrongReadPosition, <<>>, 0, was)
              /\ thr' = [thr EXCEPT ![t] = Idle]
              /\ UNCHANGED <<mem, vmap, key, fsm, NodePool, crash, written,
                             home, removed, freed, mixed>>
          ELSE /\ thr' = [thr EXCEPT ![t] = [Idle EXCEPT !.pc = "copy", !.k = k,
                                                         !.pos = l[1], !.was = was]]
               /\ UNCHANGED <<mem, vmap, key, fsm, NodePool, crash, ret, written,
                              home, removed, freed, mixed>>

\* Read: g.RLock() and loadFromVPos
ReadBegin(t, k) == crash = "" /\ thr[t].pc = "idle" /\ loaded(t, k)

\* Read: the bounds test, the copy out of g.mem, and RUnlock
ReadCopy(t) ==
    /\ crash = "" /\ thr[t].pc = "copy"
    /\ LET r == readAt(mem, thr[t].pos)
       IN IF r.panic THEN PanicC("Read")
          ELSE /\ ret' = Ret("Read", thr[t].k, thr[t].k, r.err, r.data, 0, thr[t].was)
               /\ thr' = [thr EXCEPT ![t] = Idle]
               /\ UNCHANGED <<mem, vmap, key, fsm, NodePool, crash, written, home,
                              removed, freed, mixed>>

\* Free: the return of loadAndDeleteFromVPos, the length read, RUnlock
loadedAndDeleted(t, k) ==
    /\ LET f == freeLookup(mem, vmap, k)
       IN IF f.panic THEN PanicC("Free")
          ELSE IF f.err # NoError THEN
              /\ vmap' = f.vmap
              /\ ret' = Ret("Free", k, k, f.err, <<>>, 0, KeyState(k))
              /\ thr' = [thr EXCEPT ![t] = Idle]
              /\ UNCHANGED <<mem, key, fsm, NodePool, crash, written, home,
                             removed, freed, mixed>>
          ELSE /\ vmap' = f.vmap
               /\ removed' = removed \cup {k}
               /\ thr' = [u \in Threads |->
                            IF u = t
                            THEN [Idle EXCEPT !.pc = "add", !.k = k, !.fss = <<f.fs>>,
                                              !.was = KeyState(k)]
                            ELSE IF thr[u].pc = "copy" /\ thr[u].k = k
                            THEN [thr[u] EXCEPT !.was = "none"]
                            ELSE thr[u]]
               /\ mixed' = (mixed \/ \E u \in Threads : InWrite(u))
               /\ UNCHANGED <<mem, key, fsm, NodePool, crash, ret, written, home,
                              freed>>

\* Free: RLock, loadAndDeleteFromVPos, the length read, RUnlock
FreeBegin(t, k) == crash = "" /\ thr[t].pc = "idle" /\ loadedAndDeleted(t, k)

\* Free: g.fsm.add of the freed interval
FreeAdd(t) ==
    /\ crash = "" /\ thr[t].pc = "add"
    /\ \E nn \in nodePoolGet(fsm.nodes, NodePool) :
       \E a \in add(fsm, NodePool, thr[t].fss[1], nn) :
          /\ fsm' = a.t
          /\ NodePool' = a.pool
          /\ thr' = LET th == [thr EXCEPT ![t] = Idle]
                    IN IF a.broadcast THEN Broadcast(th) ELSE th
          /\ ret' = Ret("Free", thr[t].k, thr[t].k, a.err, <<>>, 0, thr[t].was)
          /\ freed' = IF a.err = NoError THEN freed \cup {thr[t].k} ELSE freed
          /\ UNCHANGED <<mem, vmap, key, crash, written, home, removed, mixed>>

\* TotalFreeSpace: totalFreeSpaceSize, which waits for the extracted bundles
TotalFreeSpaceCall(t) ==
    /\ crash = "" /\ thr[t].pc \in {"idle", "tfs"}
    /\ IF totalFreeSpaceWaits(fsm) THEN
           /\ thr' = [thr EXCEPT ![t] = [Idle EXCEPT !.pc = "tfsWait"]]
           /\ UNCHANGED <<mem, vmap, key, fsm, NodePool, crash, ret, written, home,
                          removed, freed, mixed>>
       ELSE
           /\ thr' = [thr EXCEPT ![t] = Idle]
           /\ ret' = Ret("TotalFreeSpace", 0, 0, NoError, <<>>,
                         totalFreeSpaceSize(fsm), "none")
           /\ UNCHANGED <<mem, vmap, key, fsm, NodePool, crash, written, home,
                          removed, freed, mixed>>

\* the keys issued so far
Issued == 2..key

InitC == InitArena(MemSizeC)

NextC ==
    \E t \in Threads :
       \/ \E n \in PayloadLens : WriteBegin(t, n)
       \/ Extract(t)
       \/ Merge(t)
       \/ WriteAt(t)
       \/ Store(t)
       \/ Put(t)
       \/ \E k \in Issued : ReadBegin(t, k)
       \/ ReadCopy(t)
       \/ \E k \in Issued : FreeBegin(t, k)
       \/ FreeAdd(t)
       \/ TotalFreeSpaceCall(t)

SpecC == InitC /\ [][NextC]_vars

\* a goroutine has called g.Lock: RLock blocks from then on, until Unlock
locking == { t \in Threads : thr[t].pc = "lock" }

\* write: the call of g.Lock in g.merge(fss), which takes the writers' mutex
\* and announces the writer to the readers
LockCall(t) ==
    /\ crash = "" /\ thr[t].pc = "merge"
    /\ locking = {}
    /\ thr' = [thr EXCEPT ![t].pc = "lock"]
    /\ UNCHANGED <<mem, vmap, key, fsm, NodePool, crash, ret, written, home,
                   removed, freed, mixed>>

\* write: g.Lock returns when the readers have left; the body of g.merge(fss)
\* and g.Unlock
MergeLocked(t) == crash = "" /\ thr[t].pc = "lock" /\ readers = {} /\ merged(t)

\* the steps of a call after its first
Step(t) ==
    \/ Extract(t)
    \/ LockCall(t)
    \/ MergeLocked(t)
    \/ WriteAt(t)
    \/ Store(t)
    \/ Put(t)
    \/ ReadCopy(t)
    \/ FreeAdd(t)
    \/ (thr[t].pc = "tfs" /\ TotalFreeSpaceCall(t))

\* goroutine t can take a step of its call: ENABLED <<Step(t)>>_vars
CanStep(t) ==
    /\ crash = ""
    /\ \/ thr[t].pc \in {"extract", "writeAt", "store", "put", "copy", "add", "tfs"}
       \/ thr[t].pc = "merge" /\ locking = {}
       \/ thr[t].pc = "lock" /\ readers = {}

\* The scheduler runs every goroutine that can run, and a goroutine woken by
\* pcond.Broadcast re-evaluates its loop: WF_vars(Step(t)), with ENABLED
\* written out
Fairness == \A t \in Threads : []<>(~CanStep(t)) \/ []<><<Step(t)>>_vars

\* the calls of several goroutines with at most MaxKeyF - 1 writes
NextFair ==
    \E t \in Threads :
       \/ \E n \in PayloadLens : key < MaxKeyF /\ WriteBegin(t, n)
       \/ Extract(t)
       \/ LockCall(t)
       \/ MergeLocked(t)
       \/ WriteAt(t)
       \/ Store(t)
       \/ Put(t)
       \/ \E k \in Issued : locking = {} /\ ReadBegin(t, k)
       \/ ReadCopy(t)
       \/ \E k \in Issued : locking = {} /\ FreeBegin(t, k)
       \/ FreeAdd(t)
       \/ TotalFreeSpaceCall(t)

SpecFair == InitC /\ [][NextFair]_vars /\ Fairness

(***************************************************************************)
(* The calls of several goroutines with the accesses of the sharded store  *)
(* in two steps: a goroutine enters store, load or loadAndDelete, having   *)
(* picked the shard of its key, and returns from it.  The maps of the      *)
(* shards are plain Go maps without a lock: when a goroutine is inside an  *)
(* access that writes the map of a shard while another goroutine is inside *)
(* an access to the same map, the runtime either stops the program with    *)
(* "concurrent map writes" / "concurrent map read and map write" or does   *)
(* not notice, and both accesses return.                                   *)
(***************************************************************************)

\* goroutine t is inside an access to a shard of the store
inVmap(t) == thr[t].pc \in {"load", "loadAndDelete", "storing"}

\* the access goroutine t is inside writes the map of the shard
mutates(t) == thr[t].pc \in {"loadAndDelete", "storing"}

\* two goroutines are inside accesses to the map of the same shard and one of
\* them writes it
racing(t, u) ==
    /\ t # u /\ inVmap(t) /\ inVmap(u)
    /\ bucketIdx(thr[t].k) = bucketIdx(thr[u].k)
    /\ mutates(t) \/ mutates(u)

\* Read: g.RLock() and the call of g.vmap.load(key)
ReadEnter(t, k) ==
    /\ crash = "" /\ thr[t].pc = "idle"
    /\ thr' = [thr EXCEPT ![t] = [Idle EXCEPT !.pc = "load", !.k = k]]
    /\ UNCHANGED <<mem, vmap, key, fsm, NodePool, crash, ret, written, home,
                   removed, freed, mixed>>

\* Read: the return of g.vmap.load(key)
ReadLoad(t) == crash = "" /\ thr[t].pc = "load" /\ loaded(t, thr[t].k)

\* Free: g.RLock() and the call of g.vmap.loadAndDelete(key)
FreeEnter(t, k) ==
    /\ crash = "" /\ thr[t].pc = "idle"
    /\ thr' = [thr EXCEPT ![t] = [Idle EXCEPT !.pc = "loadAndDelete", !.k = k]]
    /\ UNCHANGED <<mem, vmap, key, fsm, NodePool, crash, ret, written, home,
                   removed, freed, mixed>>

\* Free: the return of g.vmap.loadAndDelete(key), the length read, RUnlock
FreeLookup(t) ==
    crash = "" /\ thr[t].pc = "loadAndDelete" /\ loadedAndDeleted(t, thr[t].k)

\* write: the call of g.vmap.store(k, npos), with no lock held
StoreEnter(t) ==
    /\ crash = "" /\ thr[t].pc = "store"
    /\ thr' = [thr EXCEPT ![t].pc = "storing"]
    /\ UNCHANGED <<mem, vmap, key, fsm, NodePool, crash, ret, written, home,
                   removed, freed, mixed>>

\* write: the return of g.vmap.store(k, npos)
StoreReturn(t) == crash = "" /\ thr[t].pc = "storing" /\ stored(t)

\* the runtime notices the unsynchronised access to the map of a shard
MapFault(t) ==
    /\ crash = ""
    /\ \E u \in Threads : racing(t, u)
    /\ PanicC("concurrent map access")

NextV ==
    \E t \in Threads :
       \/ \E n \in PayloadLens : key < MaxKeyV /\ WriteBegin(t, n)
       \/ Extract(t)
       \/ Merge(t)
       \/ WriteAt(t)
       \/ StoreEnter(t)
       \/ StoreReturn(t)
       \/ Put(t)
       \/ \E k \in Issued : ReadEnter(t, k)
       \/ ReadLoad(t)
       \/ ReadCopy(t)
       \/ \E k \in Issued : FreeEnter(t, k)
       \/ FreeLookup(t)
       \/ FreeAdd(t)
       \/ MapFault(t)

SpecV == InitC /\ [][NextV]_vars

(***************************************************************************)
(* The free space manager alone: a single caller adds intervals that are   *)
(* disjoint from those of the treap, starting with an empty treap.         *)
(***************************************************************************)
RECURSIVE SumFs(_)
\* the bytes of a sequence of intervals
SumFs(fss) ==
    IF fss = <<>> THEN 0 ELSE Size(Head(fss)) + SumFs(Tail(fss))

\* the intervals within the first TreapSpan bytes
Intervals == { fs \in (0..(TreapSpan - 1)) \X (0..(TreapSpan - 1)) : fs[1] <= fs[2] }

\* the intervals share a byte
Meets(a, b) ==
    \E x \in Start(a)..End(a) : Start(b) <= x /\ x <= End(b)

\* fs shares no byte with the treap
Unused(fs) ==
    \A i \in DOMAIN treeIntervals(fsm) : ~Meets(fs, treeIntervals(fsm)[i])

InitT ==
    /\ mem = [i \in 0..(TreapSpan - 1) |-> 0]
    /\ vmap = newShardedStore
    /\ key = 1
    /\ fsm = newFSM
    /\ NodePool = {}
    /\ thr = [t \in Threads |-> Idle]
    /\ crash = ""
    /\ ret = Ret("newFSM", 0, 0, NoError, <<>>, 0, "none")
    /\ written = <<>>
    /\ home = <<>>
    /\ removed = {}
    /\ freed = {}
    /\ mixed = FALSE

\* fsm.add(fs)
AddT(fs) ==
    /\ crash = ""
    /\ Unused(fs)
    /\ \E nn \in nodePoolGet(fsm.nodes, NodePool) :
       \E a \in add(fsm, NodePool, fs, nn) :
          /\ fsm' = a.t
          /\ NodePool' = a.pool
          /\ ret' = Ret("add", fs, 0, a.err, <<>>, 0, "none")
          /\ UNCHANGED <<mem, vmap, key, thr, crash, written, home, removed, freed,
                         mixed>>

NextT == \E fs \in Intervals : AddT(fs)

SpecT == InitT /\ [][NextT]_vars

(***************************************************************************)
(* Removal from the treap: intervals are added as by TestTreapdelete, and  *)
(* treap.Remove is called on the root with nodes of the tree, in any       *)
(* order, and with nodes that are not in it.  The intervals are all added  *)
(* before the first Remove, and a byte is added once.                      *)
(***************************************************************************)
\* x is one of the sequence
Among(x, seq) == \E i \in DOMAIN seq : seq[i] = x

RemoveIntervals ==
    { fs \in (0..(RemoveSpan - 1)) \X (0..(RemoveSpan - 1)) : fs[1] <= fs[2] }

InitR ==
    /\ mem = [i \in 0..(RemoveSpan - 1) |-> 0]
    /\ vmap = newShardedStore
    /\ key = 1
    /\ fsm = newFSM
    /\ NodePool = {}
    /\ thr = [t \in Threads |-> Idle]
    /\ crash = ""
    /\ ret = Ret("newFSM", 0, 0, NoError, <<>>, 0, "none")
    /\ written = <<>>
    /\ home = <<>>
    /\ removed = {}
    /\ freed = {}
    /\ mixed = FALSE

\* ts.add(fs) of bytes that were not added yet
AddR(fs) ==
    /\ crash = "" /\ ret.op \in {"newFSM", "add"}
    /\ \A i \in Start(fs)..End(fs) : mem[i] = 0
    /\ \E nn \in nodePoolGet(fsm.nodes, NodePool) :
       \E a \in add(fsm, NodePool, fs, nn) :
          /\ fsm' = a.t
          /\ NodePool' = a.pool
          /\ mem' = [i \in DOMAIN mem |-> IF Start(fs) <= i /\ i <= End(fs) THEN 1
                                          ELSE mem[i]]
          /\ ret' = Ret("add", fs, 0, a.err, <<>>, 0, "none")
          /\ UNCHANGED <<vmap, key, thr, crash, written, home, removed, freed, mixed>>

\* ts.root, dn = treap.Remove(ts.root, treap.NewNode(fs)); ret.data is the
\* interval of dn
RemoveR(fs) ==
    /\ crash = ""
    /\ LET rem == Remove(fsm.nodes, fsm.root, fs)
           c == collect(rem.h, rem.r, NodePool)
       IN /\ fsm' = [fsm EXCEPT !.root = c.r, !.nodes = c.h]
          /\ NodePool' = c.pool
          /\ ret' = Ret("Remove", fs, 0, NoError,
                        IF rem.dn = Nil THEN <<>> ELSE <<rem.h[rem.dn].Fs>>, 0, "none")
    /\ UNCHANGED <<mem, vmap, key, thr, crash, written, home, removed, freed, mixed>>

NextR ==
    \/ \E fs \in RemoveIntervals : AddR(fs)
    \/ \E fs \in RemoveIntervals : RemoveR(fs)

SpecR == InitR /\ [][NextR]_vars

(***************************************************************************)
(* The bundle of GetFittingNeighbours: intervals are added as by           *)
(* TestFittingNeighbours, and treap.GetFittingNeighbours is called on the  *)
(* root with a node of the tree and a size.  ret.arg is the interval of    *)
(* the node and the size, ret.data the bundle, ret.tfs the size returned.  *)
(***************************************************************************)
FitSizes == 1..RemoveSpan

\* the node of the tree that holds the interval
nodeOf(t, fs) == CHOOSE n \in NodeIds : Among(n, treeNodes(t)) /\ t.nodes[n].Fs = fs

\* fss, ts.root, esize = treap.GetFittingNeighbours(ts.root, node, size)
FitR(fs, size) ==
    /\ crash = ""
    /\ Among(fs, treeIntervals(fsm))
    /\ LET g == GetFittingNeighbours(fsm.nodes, fsm.root, nodeOf(fsm, fs), size)
           c == collect(g.h, g.nr, NodePool)
       IN /\ fsm' = [fsm EXCEPT !.root = c.r, !.nodes = c.h]
          /\ NodePool' = c.pool
          /\ crash' = IF g.panic THEN "size not satisfied" ELSE ""
          /\ ret' = Ret("GetFittingNeighbours", <<fs, size>>, 0, NoError,
                        IF g.panic THEN <<>> ELSE g.fss, g.ts, "none")
    /\ UNCHANGED <<mem, vmap, key, thr, written, home, removed, freed, mixed>>

NextN ==
    \/ \E fs \in RemoveIntervals : AddR(fs)
    \/ \E fs \in RemoveIntervals : \E size \in FitSizes : FitR(fs, size)

SpecN == InitR /\ [][NextN]_vars

(***************************************************************************)
(* The free space manager and its pool: goroutines add intervals, extract  *)
(* bundles with poolExtract and return what is left of a bundle with       *)
(* poolPut, as src/fsm_test.go and Gravity.write do.  A goroutine holds    *)
(* its bundle in thr[t].fss and the size it asked for in thr[t].pos.  The  *)
(* bytes are those of mem, and mem[i] = 1 once byte i was given to the     *)
(* manager: a byte is added once, and used by the goroutine that extracts  *)
(* it.                                                                     *)
(***************************************************************************)
\* the intervals within the first PoolSpan bytes
PoolIntervals == { fs \in (0..(PoolSpan - 1)) \X (0..(PoolSpan - 1)) : fs[1] <= fs[2] }

\* the sizes poolExtract is asked for
PoolSizes == 1..PoolSpan

\* fs shares no byte with the bundles the goroutines hold
NotHeld(fs) ==
    \A t \in Threads : \A i \in DOMAIN thr[t].fss : ~Meets(fs, thr[t].fss[i])

\* what is left of a bundle when size bytes of it are taken: fs.Start += r on
\* the interval the bundle ends with
remainder(fss, size) ==
    FreeSpace(End(fss[Len(fss)]) + 1 - (SumFs(fss) - size), End(fss[Len(fss)]))

InitP ==
    /\ mem = [i \in 0..(PoolSpan - 1) |-> 0]
    /\ vmap = newShardedStore
    /\ key = 1
    /\ fsm = newFSM
    /\ NodePool = {}
    /\ thr = [t \in Threads |-> Idle]
    /\ crash = ""
    /\ ret = Ret("newFSM", 0, 0, NoError, <<>>, 0, "none")
    /\ written = <<>>
    /\ home = <<>>
    /\ removed = {}
    /\ freed = {}
    /\ mixed = FALSE

\* fsm.add(fs) of an interval of bytes that were not given to the manager yet
AddP(fs) ==
    /\ crash = ""
    /\ \A i \in Start(fs)..End(fs) : mem[i] = 0
    /\ Unused(fs) /\ NotHeld(fs)
    /\ \E nn \in nodePoolGet(fsm.nodes, NodePool) :
       \E a \in add(fsm, NodePool, fs, nn) :
          /\ fsm' = a.t
          /\ NodePool' = a.pool
          /\ mem' = [i \in DOMAIN mem |-> IF Start(fs) <= i /\ i <= End(fs) THEN 1
                                          ELSE mem[i]]
          /\ thr' = IF a.broadcast THEN Broadcast(thr) ELSE thr
          /\ ret' = Ret("add", fs, 0, a.err, <<>>, 0, "none")
          /\ UNCHANGED <<vmap, key, crash, written, home, removed, freed, mixed>>

\* the call of fsm.poolExtract(size)
ExtractCallP(t, size) ==
    /\ crash = "" /\ thr[t].pc = "idle"
    /\ thr' = [thr EXCEPT ![t] = [Idle EXCEPT !.pc = "extract", !.pos = size]]
    /\ UNCHANGED <<mem, vmap, key, fsm, NodePool, crash, ret, written, home,
                   removed, freed, mixed>>

\* poolExtract: the return; ex is what it returned
extractedP(t, ex) ==
    IF ex.panic THEN PanicC("size not satisfied")
    ELSE /\ fsm' = ex.t
         /\ NodePool' = ex.pool
         /\ thr' = [thr EXCEPT ![t] = IF ex.err # NoError THEN Idle
                                      ELSE [thr[t] EXCEPT !.pc = "held", !.fss = ex.fss]]
         /\ ret' = Ret("poolExtract", thr[t].pos, 0, ex.err, ex.fss, 0, "none")
         /\ UNCHANGED <<mem, vmap, key, crash, written, home, removed, freed, mixed>>

\* poolExtract: the wait loop, and the extraction when it is over
ExtractP(t) ==
    /\ crash = "" /\ thr[t].pc = "extract"
    /\ IF extractWaits(fsm, thr[t].pos) THEN
           /\ thr' = [thr EXCEPT ![t].pc = "wait"]
           /\ UNCHANGED <<mem, vmap, key, fsm, NodePool, crash, ret, written, home,
                          removed, freed, mixed>>
       ELSE extractedP(t, poolExtract(fsm, NodePool, thr[t].pos))

\* fsm.poolPut(fs) of what is left of the bundle
PutP(t) ==
    /\ crash = "" /\ thr[t].pc = "held"
    /\ \E nn \in nodePoolGet(fsm.nodes, NodePool) :
       \E put \in poolPut(fsm, NodePool, remainder(thr[t].fss, thr[t].pos), nn) :
          /\ fsm' = put.t
          /\ NodePool' = put.pool
          /\ thr' = LET th == [thr EXCEPT ![t] = Idle]
                    IN IF put.broadcast THEN Broadcast(th) ELSE th
          /\ ret' = Ret("poolPut", remainder(thr[t].fss, thr[t].pos), 0, put.err,
                        <<>>, 0, "none")
          /\ UNCHANGED <<mem, vmap, key, crash, written, home, removed, freed, mixed>>

NextP ==
    \/ \E fs \in PoolIntervals : AddP(fs)
    \/ \E t \in Threads : \E size \in PoolSizes : ExtractCallP(t, size)
    \/ \E t \in Threads : ExtractP(t)
    \/ \E t \in Threads : PutP(t)

SpecP == InitP /\ [][NextP]_vars

\* fsm.poolPut(fs) by a goroutine that extracted nothing, while no bundle is
\* out
PutNoExtractP(t, fs) ==
    /\ crash = "" /\ thr[t].pc = "idle"
    /\ fsm.extractedFreeSpaces = 0 /\ \A u \in Threads : thr[u].pc # "held"
    /\ \A i \in Start(fs)..End(fs) : mem[i] = 0
    /\ \E nn \in nodePoolGet(fsm.nodes, NodePool) :
       \E put \in poolPut(fsm, NodePool, fs, nn) :
          /\ fsm' = put.t
          /\ NodePool' = put.pool
          /\ thr' = IF put.broadcast THEN Broadcast(thr) ELSE thr
          /\ ret' = Ret("poolPut", fs, 0, put.err, <<>>, 0, "none")
          /\ UNCHANGED <<mem, vmap, key, crash, written, home, removed, freed, mixed>>

\* the pool with callers that also put without an extract
NextPut ==
    \/ \E fs \in PoolIntervals : AddP(fs)
    \/ \E t \in Threads : \E size \in PoolSizes : ExtractCallP(t, size)
    \/ \E t \in Threads : ExtractP(t)
    \/ \E t \in Threads : PutP(t)
    \/ \E t \in Threads : \E fs \in PoolIntervals : PutNoExtractP(t, fs)

SpecPut == InitP /\ [][NextPut]_vars

(***************************************************************************)
(* A single caller fills the arena: it writes until a write fails, then    *)
(* frees some of the records, then writes records whose spans add up to no *)
(* more than the bytes freed (TestGravity_ExpandBasic).                    *)
(***************************************************************************)
\* the bytes a record with this payload takes
Span(data) == HeaderLen + KeyLen + Len(data)

RECURSIVE SumSpans(_)
\* the bytes the records of the keys in S take
SumSpans(S) ==
    IF S = {} THEN 0
    ELSE LET k == CHOOSE x \in S : TRUE
         IN Span(written[k]) + SumSpans(S \ {k})

\* the payload lengths of the caller that fills the arena
FillLens == {0, 2, HeaderLen + KeyLen, HeaderLen + KeyLen + 2}

\* the keys of the writes that failed
Failed == (2..key) \ DOMAIN written

\* the keys written before the first write failed, and those written after
Filled == { k \in DOMAIN written : \A f \in Failed : k < f }
Refilled == DOMAIN written \ Filled

\* Gravity.Write(data) with the counter capped at MaxKeyFill
WriteFill(data) ==
    /\ crash = ""
    /\ key < MaxKeyFill
    /\ write(data, getKey(key),
             poolExtract(fsm, NodePool, HeaderLen + KeyLen + Len(data)))

\* a write of the first phase: no write has failed yet
FillWrite(n) ==
    /\ Failed = {}
    /\ WriteFill(Payload(n, key))

\* a free of the second phase: a write failed and none was made since
FillFree(k) ==
    /\ Failed # {} /\ Refilled = {}
    /\ k \in Filled \ freed
    /\ Free(k)

\* a write of the third phase: the records written since the frees take no
\* more than the bytes freed
Refill(n) ==
    /\ Failed # {} /\ freed # {}
    /\ SumSpans(Refilled) + Span(Payload(n, key)) <= SumSpans(freed)
    /\ WriteFill(Payload(n, key))

NextFill ==
    \/ \E n \in FillLens : FillWrite(n)
    \/ \E k \in Keys : FillFree(k)
    \/ \E n \in FillLens : Refill(n)

SpecFill == Init /\ [][NextFill]_vars

(***************************************************************************)
(* Properties of the calls of a single caller.                             *)
(***************************************************************************)
\* the position the map holds for a key differs from where it was written
Moved(k) == load(vmap, k)[2] /\ load(vmap, k)[1] # home[k]

\* the model has a node for every NodePool.Get, and every node of the tree
\* holds an interval
ModelSane ==
    /\ freeIds(fsm.nodes, NodePool) # {}
    /\ Len(treeIntervals(fsm)) <= MaxNodes - 1
    /\ \A i \in DOMAIN treeIntervals(fsm) : treeIntervals(fsm)[i] # NilFs

\* C1: every key written and not freed reads back exactly the payload that
\* was written for it, whatever writes, frees and compactions came between
RoundTrip ==
    /\ crash = ""
    /\ \A k \in LiveKeys :
          Read(mem, vmap, k) = [panic |-> FALSE, err |-> NoError, data |-> written[k]]
    /\ (ret.op = "Read" /\ ret.was = "live") => (ret.err = NoError /\ ret.data = written[ret.key])

\* a read returned the payload of a record that a compaction had moved
RoundTripAfterMove ==
    /\ ret.op = "Read" /\ ret.was = "live" /\ ret.err = NoError
    /\ Len(ret.data) > 0 /\ ret.data = written[ret.key]
    /\ Moved(ret.key)

\* C2: with no call in progress, the spans (16 + payload length) of the
\* records written and not freed plus total_free_space() make up the length of
\* the buffer
Cover ==
    /\ ~totalFreeSpaceWaits(fsm) =>
          SumSpans(LiveKeys) + totalFreeSpaceSize(fsm) = sizeOf(mem)
    /\ ret.op = "TotalFreeSpace" => SumSpans(LiveKeys) + ret.tfs = sizeOf(mem)

\* TotalFreeSpace returned while the free space was in several intervals
\* around live records, one of them moved by a compaction
CoverFragmented ==
    /\ ret.op = "TotalFreeSpace"
    /\ Len(treeIntervals(fsm)) >= 2
    /\ Cardinality(LiveKeys) >= 2
    /\ freed # {}
    /\ \E k \in LiveKeys : Moved(k)

\* C3: a write returns no error exactly when total_free_space() is at least
\* 16 + the payload length, however the free space is fragmented, and fails
\* with NotEnoughSpace otherwise
WriteIffSpace ==
    [][ /\ crash' = ""
        /\ (key' # key \/ (ret'.op = "Write" /\ ret' # ret)) =>
              /\ ret'.op = "Write"
              /\ (ret'.err = NoError) <=> (totalFreeSpaceSize(fsm) >= Span(ret'.arg))
              /\ ret'.err \in {NoError, NotEnoughSpace} ]_vars

\* a write succeeded into the place a live record was moved away from
WriteIntoFragments ==
    /\ ret.op = "Write" /\ ret.err = NoError
    /\ \E k \in LiveKeys \ {ret.key} :
          /\ Moved(k)
          /\ home[k] >= load(vmap, ret.key)[1]
          /\ home[k] < load(vmap, ret.key)[1] + Span(ret.arg)

\* C4: after free(k) returned no error every read(k) returns
\* WrongReadPosition, also after later compactions, and the other live keys
\* still read back
FreedIsGone ==
    /\ \A k \in freed :
          Read(mem, vmap, k) = [panic |-> FALSE, err |-> WrongReadPosition, data |-> <<>>]
    /\ \A k \in LiveKeys : Read(mem, vmap, k).err = NoError
    /\ (ret.op = "Read" /\ ret.key \in freed) => ret.err = WrongReadPosition

\* a read of a freed key was rejected after a compaction moved a record
\* written after it
FreedGoneAfterMove ==
    /\ ret.op = "Read" /\ ret.key \in freed /\ ret.err = WrongReadPosition
    /\ \E k \in LiveKeys : k > ret.key /\ Moved(k)

\* C5: read(k) and free(k) of a key that is not live (never issued, 0,
\* beyond the counter, already freed) return WrongReadPosition and leave the
\* buffer, the key-position map and the free space manager as they were
NonLiveRejected ==
    [][ /\ \A k \in Keys \ LiveKeys :
              /\ Read(mem, vmap, k).err = WrongReadPosition
              /\ freeLookup(mem, vmap, k).err = WrongReadPosition
        /\ (ret'.op \in {"Read", "Free"} /\ ret'.was # "live") =>
              /\ ret'.err = WrongReadPosition
              /\ UNCHANGED <<mem, vmap, fsm, key>> ]_vars

\* a second free of a key was rejected while other records were live
DoubleFreeRejected ==
    /\ ret.op = "Free" /\ ret.arg \in freed /\ ret.was = "freed"
    /\ ret.err = WrongReadPosition
    /\ LiveKeys # {}
    /\ Len(treeIntervals(fsm)) >= 2

\* C7: a write that fails with NotEnoughSpace leaves the buffer, the
\* key-position map, the intervals of the treap, the total free space and the
\* count of extracted bundles unchanged
FailedWriteNoEffect ==
    [][ (ret'.op = "Write" /\ ret'.err # NoError /\ ret' # ret) =>
           /\ ret'.err = NotEnoughSpace
           /\ UNCHANGED <<mem, vmap, fsm>> ]_vars

\* a write failed while free intervals and live records existed
FailedWriteWithSpace ==
    /\ ret.op = "Write" /\ ret.err = NotEnoughSpace
    /\ LiveKeys # {}
    /\ Len(treeIntervals(fsm)) >= 2

(***************************************************************************)
(* Properties of the calls of several goroutines.                          *)
(***************************************************************************)
\* C6: every key a write gets is at least 2 and one more than the counter,
\* hence greater than the key of every write that began before; the keys of
\* the writes in progress are pairwise distinct, and no key of a record
\* written earlier, freed or not, is issued again
KeysUnique ==
    [][ /\ \A t \in Threads : InWrite(t) =>
              /\ thr[t].k \in 2..key
              /\ thr[t].k \notin DOMAIN written
              /\ \A u \in Threads \ {t} : InWrite(u) => thr[u].k # thr[t].k
        /\ DOMAIN written \subseteq 2..key
        /\ ret.op = "Write" => ret.key \in 2..key
        /\ \A t \in Threads : (thr[t].pc = "idle" /\ thr'[t].pc = "extract") =>
              /\ thr'[t].k = key'
              /\ key' = key + 1
        /\ (ret'.op = "Write" /\ ret' # ret) =>
              \E t \in Threads : InWrite(t) /\ thr[t].k = ret'.key
                                 /\ thr'[t].pc = "idle" ]_vars

\* two writes are in progress at once after a record was written and freed
ConcurrentWrites ==
    /\ \E t, u \in Threads : t # u /\ InWrite(t) /\ InWrite(u)
    /\ freed # {}

\* C8: once every call of every goroutine has returned, total_free_space()
\* is the length of the buffer minus the spans of the records written and
\* not freed
CoverAtQuiescence ==
    (crash = "" /\ Quiescent) =>
        totalFreeSpaceSize(fsm) = sizeOf(mem) - SumSpans(LiveKeys)

FreedStaysAbsent ==
    /\ \A k \in removed : ~load(vmap, k)[2]
    /\ (ret.op \in {"Read", "Free"} /\ ret.was = "freed") => ret.err = WrongReadPosition


\* the bytes of the record the map holds for a written key
RecordSpan(k) ==
    FreeSpace(load(vmap, k)[1], load(vmap, k)[1] + Span(written[k]) - 1)

\* the intervals a writer holds: its bundle, and once the record is in the
\* map the rest of the bundle behind the record
Held(t) ==
    IF thr[t].pc \in {"merge", "lock", "writeAt", "store"} THEN thr[t].fss
    ELSE IF thr[t].pc = "put"
    THEN <<FreeSpace(thr[t].pos + Span(thr[t].data), End(thr[t].fss[1]))>>
    ELSE <<>>

CallsReturn ==
    /\ [](\A t \in Threads : thr[t].pc = "wait" =>
              /\ fsm.extractedFreeSpaces > 0
              /\ \E u \in Threads \ {t} :
                    thr[u].pc \in {"merge", "lock", "writeAt", "store", "put"})
    /\ \A t \in Threads : (thr[t].pc # "idle") ~> (thr[t].pc = "idle")

\* a writer is blocked in poolExtract while the other is about to return its
\* bundle, after a record was freed
WriterWaits ==
    /\ \E t, u \in Threads : thr[t].pc = "wait" /\ thr[u].pc = "put"
    /\ fsm.extractedFreeSpaces = 1


\* C13: TotalFreeSpace returns only when extractedFreeSpaces = 0, that is
\* when no writer holds a bundle, and what it returns is the sum of the sizes
\* of the intervals in the treap at that moment; it waits only while
\* extractedFreeSpaces > 0
QuiescentSnapshot ==
    [][ \A t \in Threads :
          /\ (thr[t].pc # "tfsWait" /\ thr'[t].pc = "tfsWait") =>
                fsm.extractedFreeSpaces > 0
          /\ (thr[t].pc \in {"idle", "tfs"} /\ thr'[t].pc = "idle"
                /\ ret'.op = "TotalFreeSpace"
                /\ (ret' # ret \/ thr[t].pc = "tfs")) =>
                /\ fsm.extractedFreeSpaces = 0
                /\ \A u \in Threads : Held(u) = <<>>
                /\ ret'.tfs = SumFs(treeIntervals(fsm)) ]_vars


\* C14: with no call in progress, no two intervals of the treap overlap and
\* no two abut: each ends at least two bytes before the next one starts
NoOverlap ==
    /\ \A i \in DOMAIN treeIntervals(fsm) : Size(treeIntervals(fsm)[i]) > 0
    /\ \A i \in 1..(Len(treeIntervals(fsm)) - 1) :
          End(treeIntervals(fsm)[i]) + 1 < Start(treeIntervals(fsm)[i + 1])

\* a free joined the intervals of two records into one while another
\* interval stayed apart
FreesJoined ==
    /\ ret.op = "Free" /\ ret.err = NoError
    /\ Len(treeIntervals(fsm)) >= 2
    /\ Size(treeIntervals(fsm)[1]) >= 2 * (HeaderLen + KeyLen)
    /\ LiveKeys # {}


\* the tree is ordered on the start of the intervals
BstOrdered(h, ids) ==
    \A i \in 1..(Len(ids) - 1) : Start(h[ids[i]].Fs) < Start(h[ids[i + 1]].Fs)

\* no child is larger than its parent
HeapOrdered(h, ids) ==
    \A i \in DOMAIN ids :
       /\ h[ids[i]].left # Nil => NodeSize(h, ids[i]) >= NodeSize(h, h[ids[i]].left)
       /\ h[ids[i]].right # Nil => NodeSize(h, ids[i]) >= NodeSize(h, h[ids[i]].right)

\* prev and next link the nodes in their in-order sequence
Linked(h, ids) ==
    \A i \in DOMAIN ids :
       /\ h[ids[i]].next = (IF i < Len(ids) THEN ids[i + 1] ELSE Nil)
       /\ h[ids[i]].prev = (IF i > 1 THEN ids[i - 1] ELSE Nil)

\* the parent pointer of every child is its parent
Parented(h, ids) ==
    \A i \in DOMAIN ids :
       /\ h[ids[i]].left # Nil => h[h[ids[i]].left].parent = ids[i]
       /\ h[ids[i]].right # Nil => h[h[ids[i]].right].parent = ids[i]

\* C15: after every add, whatever the tie-breaks, the tree is ordered on the
\* start of the intervals, no child is larger than its parent, prev and next
\* link the nodes in their in-order sequence in both directions, and the
\* parent pointer of every child is its parent
TreapShape ==
    /\ BstOrdered(fsm.nodes, treeNodes(fsm))
    /\ HeapOrdered(fsm.nodes, treeNodes(fsm))
    /\ Linked(fsm.nodes, treeNodes(fsm))
    /\ Parented(fsm.nodes, treeNodes(fsm))

\* an add joined the two intervals around the new one, in a tree of at least
\* three nodes whose root has two children, one as large as the root
AddJoinedBoth ==
    /\ ret.op = "add" /\ ret.err = NoError
    /\ Len(treeNodes(fsm)) >= 3
    /\ \E i \in DOMAIN treeIntervals(fsm) :
          /\ Start(treeIntervals(fsm)[i]) < Start(ret.arg)
          /\ End(ret.arg) < End(treeIntervals(fsm)[i])
    /\ fsm.nodes[fsm.root].left # Nil /\ fsm.nodes[fsm.root].right # Nil
    /\ NodeSize(fsm.nodes, fsm.nodes[fsm.root].left) = NodeSize(fsm.nodes, fsm.root)


\* the free bytes left when the first write failed
Leftover == sizeOf(mem) - SumSpans(Filled)

\* the records written after the frees take exactly the bytes freed
RefillDone == freed # {} /\ SumSpans(Refilled) = SumSpans(freed)

\* C16: after writing until a write returns NotEnoughSpace and freeing some
\* of the records, every write of records whose spans add up to the bytes
\* freed succeeds, and when they take exactly the bytes freed
\* total_free_space() is 0
ExhaustiveFill ==
    /\ crash = ""
    /\ Cardinality(Failed) <= 1
    /\ RefillDone => totalFreeSpaceSize(fsm) = 0

\* C16, amended: ... total_free_space() is what was left free when the first
\* write failed, which is 0 when the first phase filled the buffer
ExhaustiveFillLeftover ==
    /\ crash = ""
    /\ Cardinality(Failed) <= 1
    /\ RefillDone =>
          /\ ~totalFreeSpaceWaits(fsm)
          /\ totalFreeSpaceSize(fsm) = Leftover
          /\ Leftover = 0 => treeIntervals(fsm) = <<>>

\* a record was written over the places of two records freed on either side
\* of a live record, which the compaction moved, and the buffer is full
RefillAcrossFragments ==
    /\ RefillDone
    /\ Leftover = 0
    /\ totalFreeSpaceSize(fsm) = 0
    /\ Cardinality(freed) = 2 /\ Cardinality(Refilled) = 1
    /\ \E k \in Filled \ freed : Moved(k)

\* C17: NewGravity fails for every buffer of at most 16 bytes; for a buffer
\* of L > 16 bytes it returns an arena with no live record, an empty key
\* map, the one free interval [0, L-1] in the treap, a total free space of
\* L and no bundle checked out
Construction ==
    ret.op = "NewGravity" =>
       IF ret.arg <= 16 THEN ret.err # NoError
       ELSE /\ ret.err = NoError
            /\ LiveKeys = {}
            /\ vmapKeys(vmap) = {}
            /\ \A i \in DOMAIN vmap : vmap[i] = <<>>
            /\ sizeOf(mem) = ret.arg
            /\ treeIntervals(fsm) = <<FreeSpace(0, ret.arg - 1)>>
            /\ ~totalFreeSpaceWaits(fsm)
            /\ totalFreeSpaceSize(fsm) = ret.arg
            /\ fsm.extractedFreeSpaces = 0

\* the shortest buffer NewGravity takes
ConstructedShortest ==
    /\ ret.op = "NewGravity"
    /\ ret.arg = HeaderLen + KeyLen + 1
    /\ ret.err = NoError
    /\ treeIntervals(fsm) = <<FreeSpace(0, HeaderLen + KeyLen)>>

\* C18: between the calls of a single caller the keys of the key map are the
\* keys written and not freed, the header at the position the map holds for
\* a key carries the length of its payload and the key, and the records of
\* two live keys share no byte
KPMAgreement ==
    /\ vmapKeys(vmap) = LiveKeys
    /\ \A k \in vmapKeys(vmap) \cap DOMAIN written :
          LET p == load(vmap, k)[1]
          IN /\ sliceOK(mem, p, p + Span(written[k]))
             /\ Uint64(slice(mem, p, p + HeaderLen)) = Len(written[k])
             /\ Uint64(slice(mem, p + HeaderLen, p + HeaderLen + KeyLen)) = k
    /\ \A k1, k2 \in LiveKeys :
          k1 # k2 => ~Meets(RecordSpan(k1), RecordSpan(k2))

\* two live records, one of them moved by the compaction of a write that
\* followed a free
KPMAfterCompaction ==
    /\ ret.op = "Write" /\ ret.err = NoError
    /\ freed # {}
    /\ Cardinality(LiveKeys) >= 2
    /\ \E k \in LiveKeys : k # ret.key /\ Moved(k)

\* the bytes of the record a writer is placing, once merge returned the place
NewRecord(t) ==
    LET pos == IF thr[t].pc = "put" THEN thr[t].pos ELSE Start(thr[t].fss[1])
    IN FreeSpace(pos, pos + Span(thr[t].data) - 1)

\* the steps of a write come in the order of Gravity.write
WriteOrder ==
    \A t \in Threads :
       /\ thr[t].pc = "extract" => thr'[t].pc \in {"extract", "wait", "merge", "idle"}
       /\ thr[t].pc = "wait" => thr'[t].pc \in {"wait", "extract"}
       /\ thr[t].pc = "merge" => thr'[t].pc \in {"merge", "writeAt"}
       /\ thr[t].pc = "writeAt" => thr'[t].pc \in {"writeAt", "store"}
       /\ thr[t].pc = "store" => thr'[t].pc \in {"store", "put"}
       /\ thr[t].pc = "put" => thr'[t].pc \in {"put", "idle"}

\* the key of a write is in the map only after its bytes are in the buffer,
\* and a read that found it copies its whole payload
ReadsComplete ==
    /\ \A t \in Threads :
          /\ thr[t].pc \in {"extract", "wait", "merge", "writeAt"} =>
                ~load(vmap, thr[t].k)[2]
          /\ (thr[t].pc = "put" /\ thr[t].k \notin removed) =>
                Read(mem, vmap, thr[t].k) =
                    [panic |-> FALSE, err |-> NoError, data |-> thr[t].data]
          /\ \A u \in Threads :
                (thr[t].pc = "copy" /\ thr[u].pc = "put" /\ thr[t].k = thr[u].k
                 /\ thr[t].k \notin removed) =>
                   readAt(mem, thr[t].pos) =
                       [panic |-> FALSE, err |-> NoError, data |-> thr[u].data]
          /\ (thr[t].pc = "copy" /\ thr[t].k \in DOMAIN written \ removed) =>
                readAt(mem, thr[t].pos) =
                    [panic |-> FALSE, err |-> NoError, data |-> written[thr[t].k]]

\* no interval of the treap holds a byte of a record that is being placed or
\* that was written and not freed
NewRecordNotFree ==
    \A i \in DOMAIN treeIntervals(fsm) :
       /\ \A t \in Threads :
             (thr[t].pc \in {"writeAt", "store", "put"} /\ thr[t].k \notin removed) =>
                ~Meets(treeIntervals(fsm)[i], NewRecord(t))
       /\ \A k \in vmapKeys(vmap) \cap (DOMAIN written \ removed) :
             ~Meets(treeIntervals(fsm)[i], RecordSpan(k))

ShardExclusion == \A t, u \in Threads : ~racing(t, u)

\* the intervals of seq that are not in the bundle
Without(seq, bundle) ==
    SelectSeq(seq, LAMBDA fs : \A i \in DOMAIN bundle : bundle[i] # fs)

\* C21: every poolExtract(size) that succeeds returns a bundle that is not
\* empty and whose sizes add up to at least size; its intervals were in the
\* treap and are no longer, the other intervals stay, totalFreeSpace goes
\* down by the sum of the bundle's sizes and extractedFreeSpaces goes up by one
ExtractTakes ==
    [][ \A t \in Threads :
          (thr[t].pc = "extract" /\ thr'[t].pc = "held") =>
             /\ thr'[t].fss # <<>>
             /\ SumFs(thr'[t].fss) >= thr[t].pos
             /\ \A i \in DOMAIN thr'[t].fss :
                   \E j \in DOMAIN treeIntervals(fsm) :
                      treeIntervals(fsm)[j] = thr'[t].fss[i]
             /\ treeIntervals(fsm)' = Without(treeIntervals(fsm), thr'[t].fss)
             /\ fsm'.totalFreeSpace = fsm.totalFreeSpace - SumFs(thr'[t].fss)
             /\ fsm'.extractedFreeSpaces = fsm.extractedFreeSpaces + 1 ]_vars

\* a goroutine holds a bundle of several intervals that poolExtract returned
\* while an interval stayed in the treap
ExtractedSeveral ==
    /\ ret.op = "poolExtract" /\ ret.err = NoError
    /\ \E t \in Threads : thr[t].pc = "held" /\ thr[t].fss = ret.data
                            /\ Len(thr[t].fss) >= 2
    /\ treeIntervals(fsm) # <<>>

\* C22: when the root of the treap has at least the size asked for,
\* GreatestGravityNode returns a node, and one of at least that size, and
\* poolExtract returns a bundle of exactly one interval of at least that size
SingleWhenRootFits ==
    /\ [](\A size \in PoolSizes :
            (fsm.root # Nil /\ NodeSize(fsm.nodes, fsm.root) >= size) =>
               /\ GreatestGravityNode(fsm.nodes, fsm.root, size) # Nil
               /\ NodeSize(fsm.nodes, GreatestGravityNode(fsm.nodes, fsm.root, size))
                     >= size)
    /\ [][ \A t \in Threads :
             (/\ thr[t].pc = "extract" /\ thr'[t].pc # "extract"
              /\ fsm.root # Nil /\ NodeSize(fsm.nodes, fsm.root) >= thr[t].pos) =>
                /\ thr'[t].pc = "held"
                /\ Len(thr'[t].fss) = 1
                /\ Size(thr'[t].fss[1]) >= thr[t].pos ]_vars

\* poolExtract returned one interval that was not the root's: the root that
\* stays is larger
ExtractedBelowRoot ==
    /\ ret.op = "poolExtract" /\ ret.err = NoError
    /\ Len(ret.data) = 1 /\ Size(ret.data[1]) >= ret.arg
    /\ \E t \in Threads : thr[t].pc = "held" /\ thr[t].fss = ret.data
    /\ fsm.root # Nil /\ NodeSize(fsm.nodes, fsm.root) > Size(ret.data[1])

\* the root of the treap is missing or smaller than size
RootTooSmall(size) == fsm.root = Nil \/ NodeSize(fsm.nodes, fsm.root) < size

\* C23: poolExtract reports NotEnoughSpace only when extractedFreeSpaces = 0
\* and the intervals of the treap add up to less than the size asked for;
\* while the root is too small and a bundle is out it waits, it evaluates its
\* condition again when woken, and it reports NotEnoughSpace when no bundle
\* is out and the space is still not enough
NotEnoughSpaceWhenAllBack ==
    /\ [](\A t \in Threads : thr[t].pc = "wait" => fsm.extractedFreeSpaces > 0)
    /\ [][ \A t \in Threads :
             /\ (thr[t].pc = "extract" /\ thr'[t].pc = "idle") =>
                   /\ ret'.err = NotEnoughSpace
                   /\ fsm.extractedFreeSpaces = 0
                   /\ SumFs(treeIntervals(fsm)) < thr[t].pos
                   /\ fsm' = fsm
             /\ (/\ thr[t].pc = "extract" /\ thr'[t].pc # "extract"
                 /\ RootTooSmall(thr[t].pos) /\ fsm.extractedFreeSpaces > 0) =>
                   thr'[t].pc = "wait" /\ fsm' = fsm /\ ret' = ret
             /\ (/\ thr[t].pc = "extract" /\ thr'[t].pc # "extract"
                 /\ fsm.extractedFreeSpaces = 0
                 /\ SumFs(treeIntervals(fsm)) < thr[t].pos) =>
                   thr'[t].pc = "idle" /\ ret'.err = NotEnoughSpace
             /\ (thr[t].pc = "wait" /\ thr'[t].pc # "wait") =>
                   thr'[t].pc = "extract" /\ thr'[t].pos = thr[t].pos ]_vars

\* poolExtract reported NotEnoughSpace with no bundle out and intervals in the
\* treap that add up to less than the size asked for
NotEnoughInFragments ==
    /\ ret.op = "poolExtract" /\ ret.err = NotEnoughSpace
    /\ fsm.extractedFreeSpaces = 0
    /\ Len(treeIntervals(fsm)) >= 2
    /\ SumFs(treeIntervals(fsm)) < ret.arg

\* C24: when the root is smaller than the size asked for and the intervals of
\* the treap add up to at least that size, poolExtract returns a bundle of
\* several intervals without waiting, whether or not bundles are out; it
\* waits only when the intervals together are too small
BundleBeforeWait ==
    [][ \A t \in Threads :
          (thr[t].pc = "extract" /\ thr'[t].pc # "extract") =>
             /\ (RootTooSmall(thr[t].pos)
                 /\ SumFs(treeIntervals(fsm)) >= thr[t].pos) =>
                   thr'[t].pc = "held" /\ Len(thr'[t].fss) >= 2
             /\ thr'[t].pc = "wait" => SumFs(treeIntervals(fsm)) < thr[t].pos ]_vars

\* C24, amended: with a root smaller than the size asked for poolExtract
\* waits whenever a bundle is out, also when the intervals of the treap add
\* up to the size; it returns a bundle of several intervals only when no
\* bundle is out and the intervals add up to the size
WaitBeforeBundle ==
    [][ \A t \in Threads :
          (thr[t].pc = "extract" /\ thr'[t].pc # "extract") =>
             IF ~RootTooSmall(thr[t].pos)
             THEN thr'[t].pc = "held" /\ Len(thr'[t].fss) = 1
             ELSE IF fsm.extractedFreeSpaces > 0
             THEN thr'[t].pc = "wait"
             ELSE IF SumFs(treeIntervals(fsm)) >= thr[t].pos
             THEN thr'[t].pc = "held" /\ Len(thr'[t].fss) >= 2
             ELSE thr'[t].pc = "idle" /\ ret'.err = NotEnoughSpace ]_vars

\* a goroutine waits in poolExtract while the intervals of the treap add up
\* to the size it asked for
WaitsWithEnoughInFragments ==
    \E t \in Threads :
       /\ thr[t].pc = "wait"
       /\ RootTooSmall(thr[t].pos)
       /\ SumFs(treeIntervals(fsm)) >= thr[t].pos
       /\ fsm.extractedFreeSpaces > 0

\* C25: extractedFreeSpaces is never negative and is the number of goroutines
\* between their poolExtract and their poolPut; a poolPut with no bundle out
\* returns illegalPoolPut, leaves the counter at zero and inserts nothing
CountIsBundlesOut ==
    /\ fsm.extractedFreeSpaces >= 0
    /\ fsm.extractedFreeSpaces = Cardinality({ t \in Threads : thr[t].pc = "held" })
    /\ (ret.op = "poolPut" /\ ret.err = illegalPoolPut) =>
          \A i \in DOMAIN treeIntervals(fsm) : ~Meets(treeIntervals(fsm)[i], ret.arg)

\* a goroutine in pcond.Wait whose size the root interval does not reach
WaitsForRoot(t) ==
    thr[t].pc = "wait" => (fsm.root = Nil \/ NodeSize(fsm.nodes, fsm.root) < thr[t].pos)

\* the step gave an interval to the manager (add, or poolPut of a remainder)
\* or took a bundle back (poolPut)
AddedOrPut ==
    \/ fsm'.totalFreeSpace > fsm.totalFreeSpace
    \/ fsm'.extractedFreeSpaces < fsm.extractedFreeSpaces

\* C26: every successful add and every poolPut broadcasts pcond, whether or
\* not the root changed: the goroutines in pcond.Wait all evaluate their loop
\* again, so none stays in the wait once the root interval reaches its size
BroadcastAlways ==
    /\ [](\A t \in Threads : WaitsForRoot(t))
    /\ [][AddedOrPut => \A t \in Threads : thr[t].pc = "wait" => thr'[t].pc = "extract"]_vars

\* the step is the g.merge of writer t, the whole of it under g.Lock
MergeBy(t) == thr[t].pc \in {"merge", "lock"} /\ thr'[t].pc = "writeAt"

\* the step is one in which goroutine t holds the mutex of the manager
FsmBy(t) ==
    /\ thr[t].pc \in {"extract", "put", "add", "tfs"} \/ thr'[t].pc = "tfsWait"
    /\ thr'[t] # thr[t]

RemoveTakesOne ==
    /\ []TreapShape
    /\ [][ret'.op = "Remove" =>
            IF Among(ret'.arg, treeIntervals(fsm))
            THEN /\ ret'.data = <<ret'.arg>>
                 /\ treeIntervals(fsm') = Without(treeIntervals(fsm), <<ret'.arg>>)
            ELSE /\ ret'.data = <<>>
                 /\ fsm' = fsm]_vars

\* Remove took out the one largest node, the root, from between two others:
\* it had both children and was rotated down
RemovedRootBetween ==
    /\ ret.op = "Remove" /\ ret.data = <<ret.arg>>
    /\ \A i \in DOMAIN treeIntervals(fsm) : Size(treeIntervals(fsm)[i]) < Size(ret.arg)
    /\ \E i \in DOMAIN treeIntervals(fsm) : Start(treeIntervals(fsm)[i]) < Start(ret.arg)
    /\ \E i \in DOMAIN treeIntervals(fsm) : Start(treeIntervals(fsm)[i]) > Start(ret.arg)

\* the step is a poolExtract of goroutine t that returned a bundle
Extracted(t) == thr[t].pc = "extract" /\ thr'[t].pc = "held"

\* C29: the bundle of GetFittingNeighbours, and so of poolExtract, is in
\* strictly ascending order of start and is a run of consecutive intervals
\* of the in-order sequence of the treap: no interval that stays in the
\* treap lies between two intervals of the bundle
BundleIsRun ==
    [][\A t \in Threads : Extracted(t) =>
          /\ \A i \in 1..(Len(thr'[t].fss) - 1) :
                Start(thr'[t].fss[i]) < Start(thr'[t].fss[i + 1])
          /\ \E lo \in DOMAIN treeIntervals(fsm) :
                /\ lo + Len(thr'[t].fss) - 1 <= Len(treeIntervals(fsm))
                /\ thr'[t].fss = SubSeq(treeIntervals(fsm), lo, lo + Len(thr'[t].fss) - 1)
          /\ \A i \in DOMAIN treeIntervals(fsm') :
                \/ End(treeIntervals(fsm')[i]) < Start(thr'[t].fss[1])
                \/ Start(treeIntervals(fsm')[i]) > End(thr'[t].fss[Len(thr'[t].fss)])]_vars

\* poolExtract returned a bundle of several intervals, the upper end of the
\* in-order sequence, and left an interval below them in the treap
BundleAboveRest ==
    /\ ret.op = "poolExtract" /\ ret.err = NoError
    /\ Len(ret.data) >= 2
    /\ fsm.root # Nil
    /\ End(treeIntervals(fsm)[1]) < Start(ret.data[1])

\* where the interval stands in the sequence
IndexOf(fs, seq) == CHOOSE i \in DOMAIN seq : seq[i] = fs

\* the bundle b for size, started from the p-th interval of the sequence, is
\* the run from lo to hi
CollectedRun(seq, p, lo, hi, b, size) ==
    /\ lo <= p /\ p <= hi
    /\ b = SubSeq(seq, lo, hi)
    /\ lo < p => hi = Len(seq)
    /\ SumFs(b) >= size
    /\ SumFs(b) - Size(IF lo < p THEN seq[lo] ELSE seq[hi]) < size

\* C30: GetFittingNeighbours(root, node, size) collects the node, then the
\* next nodes in ascending order, and previous nodes only when there is no
\* next node left, and stops as soon as the sizes add up to size: the bundle
\* without the interval collected last adds up to less than size; and when
\* the intervals of the treap add up to size or more it does not reach its
\* panic "size not satisfied"
NextThenPrev ==
    [][(ret'.op = "GetFittingNeighbours"
            /\ SumFs(treeIntervals(fsm)) >= ret'.arg[2]) =>
          /\ crash' = ""
          /\ ret'.tfs = SumFs(ret'.data)
          /\ \E lo, hi \in DOMAIN treeIntervals(fsm) :
                CollectedRun(treeIntervals(fsm), IndexOf(ret'.arg[1], treeIntervals(fsm)),
                             lo, hi, ret'.data, ret'.arg[2])]_vars

\* GetFittingNeighbours collected next nodes and, after the last of them,
\* a previous node, and stopped with an interval left in the treap
PrevAfterNext ==
    /\ ret.op = "GetFittingNeighbours" /\ crash = ""
    /\ Len(ret.data) >= 3
    /\ Start(ret.data[1]) < Start(ret.arg[1])
    /\ Start(ret.arg[1]) < Start(ret.data[Len(ret.data)])
    /\ fsm.root # Nil

Max(a, b) == IF a > b THEN a ELSE b

\* the bytes the intervals of a sequence cover
Bytes(seq) == UNION { Start(seq[i])..End(seq[i]) : i \in DOMAIN seq }

\* the intervals of the sequence that abut fs
Abutting(seq, fs) == { i \in DOMAIN seq : isOverlapping(seq[i], fs) }

\* C31: an add of an interval that abuts exactly one interval of the treap
\* leaves the number of nodes as it was and expands that node over both; an
\* add that abuts two, bridging them, takes one node away and leaves a node
\* over all three; an add that abuts none makes one node more.  In every
\* case the bytes of the treap grow by exactly the bytes of the interval
InsertMerges ==
    [][(ret'.op = "add" /\ ret'.err = NoError) =>
          LET before == treeIntervals(fsm)
              after == treeIntervals(fsm')
              adj == Abutting(before, ret'.arg)
              lo == IF adj = {} THEN Start(ret'.arg)
                    ELSE Min(Start(ret'.arg), Start(before[CHOOSE i \in adj : \A j \in adj : i <= j]))
              hi == IF adj = {} THEN End(ret'.arg)
                    ELSE Max(End(ret'.arg), End(before[CHOOSE i \in adj : \A j \in adj : i >= j]))
          IN /\ Len(after) = Len(before) + 1 - Cardinality(adj)
             /\ Among(FreeSpace(lo, hi), after)
             /\ Bytes(after) = Bytes(before) \cup (Start(ret'.arg)..End(ret'.arg))]_vars

\* an add bridged the only two intervals of the treap into one node
AddBridgedTwo ==
    /\ ret.op = "add" /\ ret.err = NoError
    /\ Len(treeIntervals(fsm)) = 1
    /\ Start(treeIntervals(fsm)[1]) < Start(ret.arg)
    /\ End(ret.arg) < End(treeIntervals(fsm)[1])

\* the bytes a record at pos moves down when the bundle b is merged: the
\* sizes of the intervals of b below it, for a record between two of them
ShiftOf(b, pos) ==
    IF End(b[1]) < pos /\ pos < Start(b[Len(b)])
    THEN SumFs(SelectSeq(b, LAMBDA f : End(f) < pos))
    ELSE 0

\* the bundle poolExtract hands to the write of data
BundleFor(data) == poolExtract(fsm, NodePool, HeaderLen + KeyLen + Len(data)).fss

TotalIsSum == fsm.totalFreeSpace = SumFs(treeIntervals(fsm))

\* the step is the deferred poolPut of writer t, whose record took the whole
\* of its merged bundle
PutOfNothing(t) ==
    /\ thr[t].pc = "put" /\ thr'[t].pc = "idle"
    /\ Size(Held(t)[1]) = 0

\* C34: the poolPut of a write that used up its bundle inserts no node and
\* leaves totalFreeSpace as it was, and still takes one from
\* extractedFreeSpaces and broadcasts: every goroutine waiting in
\* totalFreeSpaceSize or in poolExtract evaluates its loop again
EmptyPutWakes ==
    [][\A t \in Threads : PutOfNothing(t) =>
          /\ treeIntervals(fsm') = treeIntervals(fsm)
          /\ fsm'.totalFreeSpace = fsm.totalFreeSpace
          /\ fsm'.extractedFreeSpaces = fsm.extractedFreeSpaces - 1
          /\ \A u \in Threads :
                /\ thr[u].pc = "wait" => thr'[u].pc = "extract"
                /\ thr[u].pc = "tfsWait" => thr'[u].pc = "tfs"]_vars

\* a write whose record ends at the end of the buffer returned, and a
\* goroutine that waited in totalFreeSpaceSize is awake with no bundle out
EmptyPutWokeTotal ==
    /\ ret.op = "Write" /\ ret.err = NoError
    /\ home[ret.key] + Span(written[ret.key]) = sizeOf(mem)
    /\ fsm.extractedFreeSpaces = 0
    /\ \E u \in Threads : thr[u].pc = "tfs"

\* interval fs lies inside the address range spanned by bundle b
InsideRange(fs, b) ==
    /\ \E i \in 1..Len(b) : Start(b[i]) <= Start(fs)
    /\ \E i \in 1..Len(b) : End(fs) <= End(b[i])

\* C35: poolExtract returns a bundle of more than one interval only when
\* extractedFreeSpaces is 0 at the extract, and then no interval another
\* goroutine has checked out lies inside the range the bundle spans
BundleOnlyAlone ==
    [][\A t \in Threads :
          (Extracted(t) /\ Len(thr'[t].fss) > 1) =>
             /\ fsm.extractedFreeSpaces = 0
             /\ \A u \in Threads \ {t} :
                   thr[u].pc = "held" =>
                      \A i \in 1..Len(thr[u].fss) :
                         ~InsideRange(thr[u].fss[i], thr'[t].fss)]_vars

\* a goroutine holds a bundle of two or more intervals, it is the only one
\* holding any, and another waits in poolExtract beside a non-empty treap
BundleHeldAlone ==
    /\ fsm.extractedFreeSpaces = 1
    /\ fsm.root # Nil
    /\ \E t \in Threads :
          /\ thr[t].pc = "held" /\ Len(thr[t].fss) > 1
          /\ \E u \in Threads \ {t} : thr[u].pc = "wait"

\* C36: every Write draws the next value of the key counter and keeps it
\* drawn, also when it returns NotEnoughSpace: the key returned is above every
\* key written or failed before, a failed write stores no record under its
\* key, and a successful one stores exactly its own
FailedWriteSpendsKey ==
    [][ret'.op = "Write" =>
          /\ key' = key + 1
          /\ ret'.key = key'
          /\ \A k \in DOMAIN written \cup Failed : k < ret'.key
          /\ ret'.err = NotEnoughSpace =>
                /\ DOMAIN written' = DOMAIN written
                /\ Failed' = Failed \cup {ret'.key}
          /\ ret'.err = NoError =>
                /\ DOMAIN written' = DOMAIN written \cup {ret'.key}
                /\ Failed' = Failed]_vars

\* a write succeeded with the key that follows the key of a failed write
KeyAfterFailedKey ==
    /\ ret.op = "Write" /\ ret.err = NoError
    /\ ret.key - 1 \in Failed
    /\ ret.key - 2 \in DOMAIN written

RECURSIVE WholeLiveRecords(_, _)
\* the bytes from start up to srcEnd are whole records of live keys, each at
\* the position the map holds for its key, and every header read on the way
\* lies inside the buffer
WholeLiveRecords(start, srcEnd) ==
    IF start = srcEnd THEN TRUE
    ELSE IF start > srcEnd \/ start + HeaderLen + KeyLen > sizeOf(mem) THEN FALSE
    ELSE LET dl == Uint64(slice(mem, start, start + HeaderLen))
             k == Uint64(slice(mem, start + HeaderLen, start + HeaderLen + KeyLen))
         IN /\ k \in LiveKeys
            /\ load(vmap, k) = <<start, TRUE>>
            /\ dl = Len(written[k])
            /\ WholeLiveRecords(start + dl + HeaderLen + KeyLen, srcEnd)

\* C37: for a single caller no write panics, and when a write compacts its
\* bundle the bytes between each interval of the bundle and the next are
\* whole live records: the walk of readAndShift from the end of one interval
\* lands on the start of the next, reads no header beyond the buffer and
\* stores positions of live keys only
WalkNeverAborts ==
    /\ [](crash = "")
    /\ [][(ret'.op = "Write" /\ ret'.err = NoError /\ key' # key) =>
            \A i \in 1..(Len(BundleFor(ret'.arg)) - 1) :
               WholeLiveRecords(End(BundleFor(ret'.arg)[i]) + 1,
                                Start(BundleFor(ret'.arg)[i + 1]))]_vars

\* a write that compacted returned, and a record with a payload that the walk
\* moved ends where the record of the write begins
WalkedUpToNew ==
    /\ ret.op = "Write" /\ ret.err = NoError /\ ret.key = key
    /\ \E k \in LiveKeys :
          /\ Moved(k) /\ Len(written[k]) > 0
          /\ load(vmap, k)[1] + Span(written[k]) = home[key]

\* C38: no node of the treap refers to a node that poolExtract cleared and
\* put into NodePool, through left, right, prev, next or parent, and the
\* parent pointer of the root is nil
PooledNodeUnreferenced ==
    /\ \A i \in DOMAIN treeNodes(fsm) :
          pointers(fsm.nodes[treeNodes(fsm)[i]]) \cap NodePool = {}
    /\ fsm.root # Nil => fsm.nodes[fsm.root].parent = Nil

=============================================================================
